---- MODULE Spec2Model ----
(***************************************************************************)
(* The sync API's output log (syncapi_output_room_events) and its global   *)
(* stream-position counter (syncapi_stream_id), as written by InsertEvent  *)
(* inside database transactions and read by the Select* queries.           *)
(*                                                                         *)
(* The database is the contract the code relies on: transactions are       *)
(* atomic, an UPDATE takes the row's exclusive lock until the transaction  *)
(* ends, a rollback undoes every statement of the transaction, readers see *)
(* committed rows.                                                         *)
(***************************************************************************)
EXTENDS Integers, Sequences, FiniteSets, TLC

(***************************************************************************)
(* Bounds of the model.                                                    *)
(***************************************************************************)
\* cap of the stream-position counter: no UPDATE is issued beyond it
MaxPos == 3
\* number of concurrent database transactions (connections)
NumTxns == 2
\* largest LIMIT passed to a query
MaxLimit == 2

Txns == 1..NumTxns

(***************************************************************************)
(* Values.                                                                 *)
(***************************************************************************)
\* the headered events the writers insert: event ID and room of each
Events ==
    { [event_id |-> "$e1", room_id |-> "!r1"],
      [event_id |-> "$e2", room_id |-> "!r1"],
      [event_id |-> "$e3", room_id |-> "!r2"] }
\* the events of the log the range queries read: three of one room, one of another
ReadEvents == Events \cup { [event_id |-> "$e4", room_id |-> "!r1"] }
RoomIDs == { e.room_id : e \in Events }

\* a nullable SQL value or Go pointer: <<>> is NULL / nil, <<v>> holds v
SqlNull == <<>>
NotNull(v) == <<v>>

\* a Go []string: the nil slice, or a sequence of strings
NilSlice == [isNil |-> TRUE, elems |-> <<>>]
Slice(s) == [isNil |-> FALSE, elems |-> s]

\* *api.TransactionID values: nil or a (SessionID, TransactionID) pair
TransactionIDs == { SqlNull, NotNull([SessionID |-> 7, TransactionID |-> "txn1"]) }

\* json.Marshal of a []string: the text "null" for the nil slice, else the array
MarshalStrings(sl) ==
    IF sl.isNil THEN <<"null">> ELSE <<"[">> \o sl.elems \o <<"]">>

\* json.Unmarshal of that text into a []string; the elements that a range loop visits
UnmarshalStrings(js) ==
    IF js = <<"null">> THEN <<>> ELSE SubSeq(js, 2, Len(js) - 1)

\* unmarshalStateIDs: empty text is skipped and leaves the slice nil
unmarshalStateIDs(addIDsJSON, delIDsJSON) ==
    [ addIDs |-> IF Len(addIDsJSON) > 0 THEN UnmarshalStrings(addIDsJSON) ELSE <<>>,
      delIDs |-> IF Len(delIDsJSON) > 0 THEN UnmarshalStrings(delIDsJSON) ELSE <<>> ]

\* json.Marshal of the headered event, and json.Unmarshal of the stored text
MarshalEvent(ev) == <<"{", ev.event_id, ev.room_id, "}">>
UnmarshalEvent(js) == [event_id |-> js[2], room_id |-> js[3]]

VARIABLES
    stream_id,           \* syncapi_stream_id.stream_id of the 'global' row, latest version
    output_room_events,  \* rows of syncapi_output_room_events, latest version
    committed,           \* the last committed version of both tables
    lock,                \* the transactions holding the lock of the 'global' row
    pc,                  \* where each transaction stands in InsertEvent
    streamPos,           \* InsertEvent's streamPos in each transaction
    ev,                  \* the event ID InsertEvent bound to its insert statement
    returned,            \* history: every position nextStreamID has returned
    kept,                \* history: the positions returned in committed transactions
    seenAll,             \* history: positions returned by calls concurrent with each call
    seenLive,            \* the same, less those whose transaction was rolled back
    result,              \* the last query and what it returned
    roomserver_rooms,    \* rows of roomserver_rooms, latest version
    roomsCommitted,      \* rows of roomserver_rooms, last committed version
    room_nid_seq,        \* the AUTO_INCREMENT counter of room_nid
    roomLocks,           \* <<transaction, room_nid>>: row locks held
    rtxn,                \* where each room transaction stands, and its locals
    nidReturned,         \* history: <<room ID, NID>> returned by InsertRoomNID
    nidKept,             \* history: those returned in committed transactions
    roomserver_state_snapshots,  \* rows of roomserver_state_snapshots
    state_snapshot_seq,  \* sqlite_sequence of roomserver_state_snapshots
    snapshotsReturned,   \* history: the NIDs insertState has returned
    appservice_counters, \* last_id of the 'txn_id' row of appservice_counters
    txnIDCall,           \* where each caller stands in selectTxnID, and its txnID
    txnIDsReturned       \* history: the transaction IDs selectTxnID has returned

dbVars == <<stream_id, output_room_events, committed, lock>>
txnVars == <<pc, streamPos, ev>>
histVars == <<returned, kept, seenAll, seenLive>>
roomVars == <<roomserver_rooms, roomsCommitted, room_nid_seq, roomLocks, rtxn,
              nidReturned, nidKept>>
snapshotVars == <<roomserver_state_snapshots, state_snapshot_seq, snapshotsReturned>>
roomserverVars == <<roomVars, snapshotVars>>
syncapiVars == <<dbVars, txnVars, histVars, result>>
appserviceVars == <<appservice_counters, txnIDCall, txnIDsReturned>>
vars == <<dbVars, txnVars, histVars, result, roomVars, snapshotVars, appserviceVars>>

NoResult == [op |-> "none"]
NoEvent == ""
\* a room transaction that has not begun
IdleTxn == [pc |-> "idle"]
\* a caller that is not in selectTxnID
IdleCall == [pc |-> "idle", txnID |-> 0]

Init ==
    /\ stream_id = 0
    /\ output_room_events = {}
    /\ committed = [stream_id |-> 0, output_room_events |-> {}]
    /\ lock = {}
    /\ pc = [t \in Txns |-> "idle"]
    /\ streamPos = [t \in Txns |-> 0]
    /\ ev = [t \in Txns |-> NoEvent]
    /\ returned = {}
    /\ kept = {}
    /\ seenAll = [t \in Txns |-> {}]
    /\ seenLive = [t \in Txns |-> {}]
    /\ result = NoResult
    /\ roomserver_rooms = {}
    /\ roomsCommitted = {}
    /\ room_nid_seq = 0
    /\ roomLocks = {}
    /\ rtxn = [t \in Txns |-> IdleTxn]
    /\ nidReturned = {}
    /\ nidKept = {}
    /\ roomserver_state_snapshots = {}
    /\ state_snapshot_seq = 0
    /\ snapshotsReturned = {}
    /\ appservice_counters = 1
    /\ txnIDCall = [c \in Txns |-> IdleCall]
    /\ txnIDsReturned = {}

(***************************************************************************)
(* Writers: InsertEvent in a transaction.                                  *)
(***************************************************************************)
InFlight == { t \in Txns : pc[t] # "idle" }
\* the transactions whose nextStreamID has returned
Holding == { t \in Txns : pc[t] \in {"insert", "done", "failed"} }

\* a transaction begins and calls InsertEvent, which reaches nextStreamID
InsertEvent(t) ==
    /\ pc[t] = "idle"
    /\ pc' = [pc EXCEPT ![t] = "increase"]
    /\ seenAll' = [seenAll EXCEPT ![t] = { streamPos[u] : u \in Holding }]
    /\ seenLive' = [seenLive EXCEPT ![t] = { streamPos[u] : u \in Holding }]
    /\ UNCHANGED <<dbVars, streamPos, ev, returned, kept, result>>
    /\ UNCHANGED <<roomserverVars, appserviceVars>>

\* the UPDATE needs the exclusive lock of the 'global' row, which a transaction
\* keeps until it commits or rolls back
RowLockFree_NoLock(t) == TRUE
RowLockFree_NoWaiter(t) == lock \subseteq {t} /\ \A u \in Txns \ {t} : pc[u] # "increase"
RowLockFree(t) == lock \subseteq {t}

\* SET stream_id = stream_id + 1
Increased_Same(v) == v
Increased(v) == v + 1

\* internal.TxStmt(txn, s.increaseStreamIDStmt): the UPDATE runs in the
\* caller's transaction, so the
\* committed version stays as it is until the commit
TxnStmt_AutoCommit(committedVersion, v) == [committedVersion EXCEPT !.stream_id = v]
TxnStmt(committedVersion, v) == committedVersion

\* increaseStreamIDStmt: UPDATE syncapi_stream_id ... WHERE stream_name = 'global'
IncreaseStreamID(t) ==
    /\ pc[t] = "increase"
    /\ RowLockFree(t)
    /\ stream_id < MaxPos
    /\ lock' = lock \cup {t}
    /\ stream_id' = Increased(stream_id)
    /\ committed' = TxnStmt(committed, Increased(stream_id))
    /\ pc' = [pc EXCEPT ![t] = "select"]
    /\ UNCHANGED <<output_room_events, streamPos, ev, histVars, result>>
    /\ UNCHANGED <<roomserverVars, appserviceVars>>

\* selectStreamIDStmt: SELECT stream_id, scanned into pos; nextStreamID returns
SelectStreamID(t) ==
    /\ pc[t] = "select"
    /\ streamPos' = [streamPos EXCEPT ![t] = stream_id]
    /\ pc' = [pc EXCEPT ![t] = "insert"]
    /\ returned' = returned \cup {stream_id}
    /\ seenAll' = [u \in Txns |->
          IF u # t /\ u \in InFlight THEN seenAll[u] \cup {stream_id} ELSE seenAll[u]]
    /\ seenLive' = [u \in Txns |->
          IF u # t /\ u \in InFlight THEN seenLive[u] \cup {stream_id} ELSE seenLive[u]]
    /\ UNCHANGED <<dbVars, ev, kept, result>>
    /\ UNCHANGED <<roomserverVars, appserviceVars>>

\* the row InsertEvent binds to insertEventSQL
NewRow(pos, a) ==
    [ id |-> pos,
      room_id |-> a.event.room_id,
      event_id |-> a.event.event_id,
      headered_event_json |-> MarshalEvent(a.event),
      add_state_ids |-> NotNull(MarshalStrings(a.addState)),
      remove_state_ids |-> NotNull(MarshalStrings(a.removeState)),
      session_id |-> IF a.transactionID = SqlNull THEN SqlNull
                     ELSE NotNull(a.transactionID[1].SessionID),
      transaction_id |-> IF a.transactionID = SqlNull THEN SqlNull
                         ELSE NotNull(a.transactionID[1].TransactionID),
      exclude_from_sync |-> a.excludeFromSync ]

\* ON CONFLICT ON CONSTRAINT syncapi_event_id_idx DO UPDATE SET exclude_from_sync = $13
OnConflict_Replace(old, new) == new
OnConflict(old, new) == [old EXCEPT !.exclude_from_sync = new.exclude_from_sync]

\* insertEventSQL applied to the table
Upsert(rows, new) ==
    IF \E r \in rows : r.event_id = new.event_id
    THEN { IF r.event_id = new.event_id THEN OnConflict(r, new) ELSE r : r \in rows }
    ELSE rows \cup {new}

\* id is the primary key: a new row whose id another row already has is refused
PrimaryKeyTaken(rows, new) ==
    /\ \E r \in rows : r.id = new.id
    /\ ~ \E r \in rows : r.event_id = new.event_id

\* insertEventStmt, then InsertEvent returns streamPos
InsertStmt(t, a) ==
    /\ pc[t] = "insert"
    /\ LET new == NewRow(streamPos[t], a)
       IN IF PrimaryKeyTaken(output_room_events, new)
          THEN /\ pc' = [pc EXCEPT ![t] = "failed"]
               /\ UNCHANGED output_room_events
          ELSE /\ pc' = [pc EXCEPT ![t] = "done"]
               /\ output_room_events' = Upsert(output_room_events, new)
    /\ ev' = [ev EXCEPT ![t] = a.event.event_id]
    /\ UNCHANGED <<stream_id, committed, lock, streamPos, histVars, result>>
    /\ UNCHANGED <<roomserverVars, appserviceVars>>

\* the caller commits after InsertEvent returned without error
Commit(t) ==
    /\ pc[t] = "done"
    /\ committed' = [stream_id |-> stream_id, output_room_events |-> output_room_events]
    /\ lock' = lock \ {t}
    /\ pc' = [pc EXCEPT ![t] = "idle"]
    /\ streamPos' = [streamPos EXCEPT ![t] = 0]
    /\ ev' = [ev EXCEPT ![t] = NoEvent]
    /\ kept' = kept \cup {streamPos[t]}
    /\ seenAll' = [seenAll EXCEPT ![t] = {}]
    /\ seenLive' = [seenLive EXCEPT ![t] = {}]
    /\ UNCHANGED <<stream_id, output_room_events, returned, result>>
    /\ UNCHANGED <<roomserverVars, appserviceVars>>

\* an error of any statement, a cancelled context or a failure of the caller:
\* the transaction is rolled back and its statements are undone
Rollback(t) ==
    /\ pc[t] # "idle"
    /\ IF t \in lock
       THEN /\ stream_id' = committed.stream_id
            /\ output_room_events' = committed.output_room_events
       ELSE UNCHANGED <<stream_id, output_room_events>>
    /\ lock' = lock \ {t}
    /\ pc' = [pc EXCEPT ![t] = "idle"]
    /\ streamPos' = [streamPos EXCEPT ![t] = 0]
    /\ ev' = [ev EXCEPT ![t] = NoEvent]
    /\ seenAll' = [seenAll EXCEPT ![t] = {}]
    /\ seenLive' = [u \in Txns |->
          IF u = t THEN {}
          ELSE IF t \in Holding THEN seenLive[u] \ {streamPos[t]} ELSE seenLive[u]]
    /\ UNCHANGED <<committed, returned, kept, result>>
    /\ UNCHANGED <<roomserverVars, appserviceVars>>

\* the arguments of the InsertEvent calls of the concurrent writers
InsertArgs ==
    [ event : Events,
      addState : {NilSlice},
      removeState : {NilSlice},
      transactionID : {SqlNull},
      excludeFromSync : BOOLEAN ]

\* the arguments of the InsertEvent calls of a single writer: the same event comes
\* with or without a transaction ID and with or without a state delta
UpsertArgs ==
    [ event : Events,
      addState : {NilSlice, Slice(<<"$e1">>)},
      removeState : {NilSlice},
      transactionID : TransactionIDs,
      excludeFromSync : BOOLEAN ]

Next ==
    \E t \in Txns :
        \/ InsertEvent(t)
        \/ IncreaseStreamID(t)
        \/ SelectStreamID(t)
        \/ \E a \in InsertArgs : InsertStmt(t, a)
        \/ Commit(t)
        \/ Rollback(t)

Spec == Init /\ [][Next]_vars

\* a transaction begins while the positions left suffice for every transaction
\* in flight
BeginInsertEvent(t) ==
    /\ committed.stream_id + Cardinality(InFlight) < MaxPos
    /\ InsertEvent(t)

\* the caller rolls back after InsertEvent returned, with or without an error
RollbackAfterInsert(t) ==
    /\ pc[t] \in {"done", "failed"}
    /\ Rollback(t)

\* concurrent InsertEvent transactions that each commit or roll back after
\* their insert
NextInsertEvents ==
    \E t \in Txns :
        \/ BeginInsertEvent(t)
        \/ IncreaseStreamID(t)
        \/ SelectStreamID(t)
        \/ \E a \in InsertArgs : InsertStmt(t, a)
        \/ Commit(t)
        \/ RollbackAfterInsert(t)

\* every statement of a transaction is run in the end, the database grants the
\* row lock to a transaction that keeps waiting for it, and every caller ends
\* its transaction
FairInsertEvents ==
    \A t \in Txns :
        /\ SF_vars(IncreaseStreamID(t))
        /\ WF_vars(SelectStreamID(t))
        /\ WF_vars(\E a \in InsertArgs : InsertStmt(t, a))
        /\ WF_vars(Commit(t) \/ RollbackAfterInsert(t))

SpecInsertEventsFair == Init /\ [][NextInsertEvents]_vars /\ FairInsertEvents

\* one writer, one transaction after the other
NextUpsert ==
    \/ InsertEvent(1)
    \/ IncreaseStreamID(1)
    \/ SelectStreamID(1)
    \/ \E a \in UpsertArgs : InsertStmt(1, a)
    \/ Commit(1)
    \/ Rollback(1)

SpecUpsert == Init /\ [][NextUpsert]_vars

\* streamIDTableSchema run on a store that has the table: CREATE TABLE IF NOT EXISTS
\* does nothing, and INSERT ... VALUES ("global", 0) ON CONFLICT DO NOTHING leaves
\* the 'global' row at its value v
streamIDTableSchema_Reset(v) == 0
streamIDTableSchema(v) == v

\* streamIDStatements.prepare on an existing store: db.Exec(streamIDTableSchema),
\* outside any transaction, then the statements are prepared
Prepare ==
    /\ stream_id' = streamIDTableSchema(stream_id)
    /\ committed' = [committed EXCEPT !.stream_id = streamIDTableSchema(@)]
    /\ result' = [ op |-> "prepare" ]
    /\ UNCHANGED <<output_room_events, lock, txnVars, histVars>>
    /\ UNCHANGED <<roomserverVars, appserviceVars>>

\* concurrent writers, and the store is opened again
NextCounter ==
    \/ Next
    \/ Prepare

SpecCounter == Init /\ [][NextCounter]_vars

\* SELECT MAX(id) FROM syncapi_output_room_events: NULL when the table is empty
MaxID(rows) ==
    IF rows = {} THEN SqlNull
    ELSE NotNull((CHOOSE r \in rows : \A q \in rows : q.id <= r.id).id)

\* SelectMaxEventID: the sql.NullInt64 scanned from the query; 0 when it is NULL
SelectMaxEventID_Count(rows) == Cardinality(rows)
SelectMaxEventID(rows) ==
    LET nullableID == MaxID(rows)
    IN IF nullableID # SqlNull THEN nullableID[1] ELSE 0

\* a reader calls SelectMaxEventID, with no transaction or in a transaction of its
\* own: the statement reads the committed log
CallSelectMaxEventID ==
    /\ result' = [ op |-> "SelectMaxEventID",
                   id |-> SelectMaxEventID(committed.output_room_events) ]
    /\ UNCHANGED <<dbVars, txnVars, histVars>>
    /\ UNCHANGED <<roomserverVars, appserviceVars>>

\* concurrent writers, and a reader of the largest position
NextMaxEventID ==
    \/ Next
    \/ CallSelectMaxEventID

SpecMaxEventID == Init /\ [][NextMaxEventID]_vars

(***************************************************************************)
(* Readers: the range queries over the committed log.                      *)
(***************************************************************************)
Min(a, b) == IF a < b THEN a ELSE b

\* WHERE id > $2 AND id <= $3
InRange_Closed(id, low, high) == id >= low /\ id <= high
InRange(id, low, high) == id > low /\ id <= high

\* AND exclude_from_sync = FALSE, of selectRecentEventsForSyncSQL only
SyncVisible_All(r, onlySyncEvents) == TRUE
SyncVisible(r, onlySyncEvents) == onlySyncEvents => r.exclude_from_sync = FALSE

RECURSIVE OrderByIdAsc(_)
RECURSIVE OrderByIdDesc(_)

\* ORDER BY id ASC
OrderByIdAsc_Desc(rows) == OrderByIdDesc(rows)
OrderByIdAsc(rows) ==
    IF rows = {} THEN <<>>
    ELSE LET first == CHOOSE r \in rows : \A q \in rows : r.id <= q.id
         IN <<first>> \o OrderByIdAsc(rows \ {first})

\* ORDER BY id DESC
OrderByIdDesc_Asc(rows) == OrderByIdAsc(rows)
OrderByIdDesc(rows) ==
    IF rows = {} THEN <<>>
    ELSE LET first == CHOOSE r \in rows : \A q \in rows : r.id >= q.id
         IN <<first>> \o OrderByIdDesc(rows \ {first})

\* LIMIT $4
Limit(rowSeq, limit) == SubSeq(rowSeq, 1, Min(limit, Len(rowSeq)))

\* rowsToStreamEvents: one StreamEvent per row, in the order of the rows
rowsToStreamEvents(rowSeq) ==
    [ i \in 1..Len(rowSeq) |->
        [ HeaderedEvent |-> UnmarshalEvent(rowSeq[i].headered_event_json),
          StreamPosition |-> rowSeq[i].id,
          TransactionID |->
              IF rowSeq[i].session_id # SqlNull /\ rowSeq[i].transaction_id # SqlNull
              THEN NotNull([ SessionID |-> rowSeq[i].session_id[1],
                             TransactionID |-> rowSeq[i].transaction_id[1] ])
              ELSE SqlNull,
          ExcludeFromSync |-> rowSeq[i].exclude_from_sync ] ]

\* sort.SliceStable by StreamPosition, ascending: a stable insertion sort
RECURSIVE SortByStreamPosition(_)
SortByStreamPosition_None(events) == events
SortByStreamPosition(events) ==
    IF Len(events) <= 1 THEN events
    ELSE LET n == Len(events)
             sorted == SortByStreamPosition(SubSeq(events, 1, n - 1))
             x == events[n]
             k == Cardinality({ i \in 1..(n - 1) :
                                  sorted[i].StreamPosition <= x.StreamPosition })
         IN SubSeq(sorted, 1, k) \o <<x>> \o SubSeq(sorted, k + 1, n - 1)

\* SelectRecentEvents: the query of selectRecentEventsSQL or of
\* selectRecentEventsForSyncSQL, then the sort when chronologicalOrder is set
SelectRecentEvents(rows, roomID, low, high, limit, chronologicalOrder, onlySyncEvents) ==
    LET matching == { r \in rows : /\ r.room_id = roomID
                                   /\ InRange(r.id, low, high)
                                   /\ SyncVisible(r, onlySyncEvents) }
        events == rowsToStreamEvents(Limit(OrderByIdDesc(matching), limit))
    IN IF chronologicalOrder THEN SortByStreamPosition(events) ELSE events

\* SelectEarlyEvents: the query of selectEarlyEventsSQL, then the sort
SelectEarlyEvents(rows, roomID, low, high, limit) ==
    LET matching == { r \in rows : r.room_id = roomID /\ InRange(r.id, low, high) }
    IN SortByStreamPosition(rowsToStreamEvents(Limit(OrderByIdAsc(matching), limit)))

Positions == 0..MaxPos
Limits == 0..MaxLimit

\* a writer runs one InsertEvent transaction to its commit while no query is running
InsertEventTxn(a) ==
    /\ result = NoResult
    /\ stream_id < MaxPos
    /\ LET pos == Increased(stream_id)
           rows == Upsert(output_room_events, NewRow(pos, a))
       IN /\ stream_id' = pos
          /\ output_room_events' = rows
          /\ committed' = [stream_id |-> pos, output_room_events |-> rows]
    /\ UNCHANGED <<lock, txnVars, histVars, result>>
    /\ UNCHANGED <<roomserverVars, appserviceVars>>

\* a reader calls SelectRecentEvents on the committed log
CallSelectRecentEvents(roomID, low, high, limit, chronologicalOrder, onlySyncEvents) ==
    /\ result = NoResult
    /\ result' =
          [ op |-> "SelectRecentEvents", roomID |-> roomID, low |-> low, high |-> high,
            limit |-> limit, chronologicalOrder |-> chronologicalOrder,
            onlySyncEvents |-> onlySyncEvents,
            events |-> SelectRecentEvents(committed.output_room_events, roomID, low,
                                          high, limit, chronologicalOrder,
                                          onlySyncEvents) ]
    /\ UNCHANGED <<dbVars, txnVars, histVars>>
    /\ UNCHANGED <<roomserverVars, appserviceVars>>

\* a reader calls SelectEarlyEvents on the committed log
CallSelectEarlyEvents(roomID, low, high, limit) ==
    /\ result = NoResult
    /\ result' =
          [ op |-> "SelectEarlyEvents", roomID |-> roomID, low |-> low, high |-> high,
            limit |-> limit,
            events |-> SelectEarlyEvents(committed.output_room_events, roomID, low,
                                         high, limit) ]
    /\ UNCHANGED <<dbVars, txnVars, histVars>>
    /\ UNCHANGED <<roomserverVars, appserviceVars>>

\* a reader scans a room in one read transaction: SelectEarlyEvents over (low, mid],
\* then SelectRecentEvents, of all events, over (mid, high]
CallSelectEarlyThenRecent(roomID, low, mid, high, limit, chronologicalOrder) ==
    /\ result = NoResult
    /\ low <= mid /\ mid <= high
    /\ result' =
          [ op |-> "EarlyThenRecent", roomID |-> roomID, low |-> low, mid |-> mid,
            high |-> high, limit |-> limit,
            early |-> SelectEarlyEvents(committed.output_room_events, roomID, low,
                                        mid, limit),
            recent |-> SelectRecentEvents(committed.output_room_events, roomID, mid,
                                          high, limit, chronologicalOrder, FALSE) ]
    /\ UNCHANGED <<dbVars, txnVars, histVars>>
    /\ UNCHANGED <<roomserverVars, appserviceVars>>

\* the reader is done with the result
Return ==
    /\ result # NoResult
    /\ result' = NoResult
    /\ UNCHANGED <<dbVars, txnVars, histVars>>
    /\ UNCHANGED <<roomserverVars, appserviceVars>>

\* the arguments of the InsertEvent calls whose log the readers query
ReadArgs ==
    [ event : ReadEvents,
      addState : {NilSlice},
      removeState : {NilSlice},
      transactionID : {SqlNull},
      excludeFromSync : BOOLEAN ]

\* the ranges of the queries: Low() is never above High()
Ranges == { r \in Positions \X Positions : r[1] <= r[2] }

\* the clients of the log, one at a time: a writer, or a reader and any query
Writer ==
    /\ result = NoResult
    /\ \E a \in ReadArgs : InsertEventTxn(a)

RecentEventsReader ==
    /\ result = NoResult
    /\ \E roomID \in RoomIDs, r \in Ranges, limit \in Limits,
          chronologicalOrder, onlySyncEvents \in BOOLEAN :
          CallSelectRecentEvents(roomID, r[1], r[2], limit, chronologicalOrder,
                                 onlySyncEvents)

EarlyEventsReader ==
    /\ result = NoResult
    /\ \E roomID \in RoomIDs, r \in Ranges, limit \in Limits :
          CallSelectEarlyEvents(roomID, r[1], r[2], limit)

EarlyThenRecentReader ==
    /\ result = NoResult
    /\ \E roomID \in RoomIDs, r \in Ranges, mid \in Positions, limit \in Limits,
          chronologicalOrder \in BOOLEAN :
          CallSelectEarlyThenRecent(roomID, r[1], mid, r[2], limit, chronologicalOrder)

NextRead ==
    \/ Writer
    \/ RecentEventsReader
    \/ EarlyEventsReader
    \/ EarlyThenRecentReader
    \/ Return

SpecRead == Init /\ [][NextRead]_vars

\* WHERE event_id = ANY($1), with the one event ID the loop binds
EventIDMatches_Any(r, eventID) == TRUE
EventIDMatches(r, eventID) == r.event_id = eventID

\* SelectEvents: one query per requested event ID, in the order of the request;
\* the rows of each query are appended to returnEvents, which starts as nil
RECURSIVE ReturnEvents(_, _)
ReturnEvents(rows, eventIDs) ==
    IF eventIDs = <<>> THEN <<>>
    ELSE LET n == Len(eventIDs)
             matching == { r \in rows : EventIDMatches(r, eventIDs[n]) }
         IN ReturnEvents(rows, SubSeq(eventIDs, 1, n - 1))
                \o rowsToStreamEvents(OrderByIdAsc(matching))

SelectEvents(rows, eventIDs) ==
    LET returnEvents == ReturnEvents(rows, eventIDs)
    IN [ events |-> IF returnEvents = <<>> THEN NilSlice ELSE Slice(returnEvents),
         err |-> "nil" ]

\* a reader calls SelectEvents on the committed log
CallSelectEvents(eventIDs) ==
    /\ result = NoResult
    /\ result' = [ op |-> "SelectEvents", eventIDs |-> eventIDs,
                   returned |-> SelectEvents(committed.output_room_events, eventIDs) ]
    /\ UNCHANGED <<dbVars, txnVars, histVars>>
    /\ UNCHANGED <<roomserverVars, appserviceVars>>

\* the InsertEvent calls whose events are looked up: with or without a
\* transaction ID, of one of two sessions
EventArgs ==
    [ event : Events,
      addState : {NilSlice},
      removeState : {NilSlice},
      transactionID :
          TransactionIDs \cup { NotNull([SessionID |-> 8, TransactionID |-> "txn2"]) },
      excludeFromSync : BOOLEAN ]

\* the lists of event IDs asked for: stored or not, in any order, with repeats
EventIDLists ==
    LET ids == { e.event_id : e \in ReadEvents }
    IN {<<>>} \cup { <<x>> : x \in ids } \cup { <<x, y>> : x \in ids, y \in ids }

EventWriter ==
    /\ result = NoResult
    /\ \E a \in EventArgs : InsertEventTxn(a)

EventsReader ==
    /\ result = NoResult
    /\ \E eventIDs \in EventIDLists : CallSelectEvents(eventIDs)

\* SelectRecentEvents and SelectEarlyEvents of a room over all positions
WholeRoomRecentReader ==
    /\ result = NoResult
    /\ \E roomID \in RoomIDs, chronologicalOrder, onlySyncEvents \in BOOLEAN :
          CallSelectRecentEvents(roomID, 0, MaxPos, MaxPos, chronologicalOrder,
                                 onlySyncEvents)

WholeRoomEarlyReader ==
    /\ result = NoResult
    /\ \E roomID \in RoomIDs : CallSelectEarlyEvents(roomID, 0, MaxPos, MaxPos)

NextEvents ==
    \/ EventWriter
    \/ EventsReader
    \/ WholeRoomRecentReader
    \/ WholeRoomEarlyReader
    \/ Return

SpecEvents == Init /\ [][NextEvents]_vars

\* if transactionID != nil { sessionID = &transactionID.SessionID;
\* txnID = &transactionID.TransactionID }: both columns are bound, or neither
BoundTransactionID_SessionOnly(row, a) == [row EXCEPT !.transaction_id = SqlNull]
BoundTransactionID(row, a) == row

\* a writer runs one InsertEvent transaction to its commit; result records the
\* call and the position InsertEvent returned
InsertEventCall(a) ==
    /\ result = NoResult
    /\ stream_id < MaxPos
    /\ LET pos == Increased(stream_id)
           rows == Upsert(output_room_events, BoundTransactionID(NewRow(pos, a), a))
       IN /\ stream_id' = pos
          /\ output_room_events' = rows
          /\ committed' = [stream_id |-> pos, output_room_events |-> rows]
          /\ result' = [ op |-> "InsertEvent", eventID |-> a.event.event_id,
                         roomID |-> a.event.room_id,
                         transactionID |-> a.transactionID, streamPos |-> pos ]
    /\ UNCHANGED <<lock, txnVars, histVars>>
    /\ UNCHANGED <<roomserverVars, appserviceVars>>

EchoWriter == \E a \in EventArgs : InsertEventCall(a)

NextEcho ==
    \/ EchoWriter
    \/ EventsReader
    \/ WholeRoomRecentReader
    \/ WholeRoomEarlyReader
    \/ Return

SpecEcho == Init /\ [][NextEcho]_vars

\* event.Content(): the JSON text of the content, by what json.Unmarshal makes of
\* it: an object with its top-level keys, another JSON value, or no JSON at all
Contents ==
    { [ kind |-> "object", keys |-> {} ],
      [ kind |-> "object", keys |-> {"body"} ],
      [ kind |-> "object", keys |-> {"url"} ],
      [ kind |-> "object", keys |-> {"body", "url"} ],
      [ kind |-> "object", keys |-> {"info"} ],
      [ kind |-> "null", keys |-> {} ],
      [ kind |-> "array", keys |-> {} ],
      [ kind |-> "string", keys |-> {} ],
      [ kind |-> "invalid", keys |-> {} ] }

\* json.Unmarshal(event.Content(), &content) into the nil map content: an object
\* fills the map, null leaves it nil, anything else is an error and leaves it nil
UnmarshalContent(c) ==
    IF c.kind = "object" THEN [ err |-> "nil", content |-> c.keys ]
    ELSE IF c.kind = "null" THEN [ err |-> "nil", content |-> {} ]
    ELSE IF c.kind = "invalid" THEN [ err |-> "SyntaxError", content |-> {} ]
    ELSE [ err |-> "UnmarshalTypeError", content |-> {} ]

\* containsURL := false
\* if json.Unmarshal(event.Content(), &content) != nil { _, containsURL = content["url"] }
containsURL_OnSuccess(c) ==
    IF UnmarshalContent(c).err = "nil" THEN "url" \in UnmarshalContent(c).content
    ELSE FALSE
containsURL(c) ==
    IF UnmarshalContent(c).err # "nil" THEN "url" \in UnmarshalContent(c).content
    ELSE FALSE

\* a writer runs one InsertEvent transaction, of an event with the content c, to
\* its commit; the row has the contains_url the call bound
InsertEventWithContent(a, c) ==
    /\ result = NoResult
    /\ stream_id < MaxPos
    /\ LET pos == Increased(stream_id)
           new == NewRow(pos, a) @@ [ contains_url |-> containsURL(c) ]
           rows == Upsert(output_room_events, new)
       IN /\ stream_id' = pos
          /\ output_room_events' = rows
          /\ committed' = [stream_id |-> pos, output_room_events |-> rows]
          /\ result' = [ op |-> "InsertEvent", eventID |-> a.event.event_id,
                         content |-> c, streamPos |-> pos ]
    /\ UNCHANGED <<lock, txnVars, histVars>>
    /\ UNCHANGED <<roomserverVars, appserviceVars>>

ContentWriter == \E a \in InsertArgs, c \in Contents : InsertEventWithContent(a, c)

NextContent ==
    \/ ContentWriter
    \/ Return

SpecContent == Init /\ [][NextContent]_vars

\* the InsertEvent calls of a backfilled event that becomes visible to sync: an
\* event the log does not hold is inserted with excludeFromSync = true, an event it
\* holds is inserted again with excludeFromSync = false
BackfillArgs ==
    { a \in ReadArgs :
        a.excludeFromSync =
            ~ \E r \in output_room_events : r.event_id = a.event.event_id }

BackfillWriter ==
    /\ result = NoResult
    /\ \E a \in BackfillArgs : InsertEventTxn(a)

NextBackfill ==
    \/ BackfillWriter
    \/ RecentEventsReader
    \/ Return

SpecBackfill == Init /\ [][NextBackfill]_vars

(***************************************************************************)
(* Readers: SelectStateInRange, the fold of the state deltas of a range.   *)
(***************************************************************************)
\* a Go map: a function on the keys that were set
EmptyMap == [k \in {} |-> FALSE]
Put(m, k, v) == [x \in DOMAIN m \cup {k} |-> IF x = k THEN v ELSE m[x]]

\* for _, id := range ids { needSet[id] = v }
RECURSIVE PutAll(_, _, _)
PutAll(m, ids, v) ==
    IF ids = <<>> THEN m
    ELSE PutAll(Put(m, Head(ids), v), Tail(ids), v)

\* for _, id := range delIDs { needSet[id] = false }
MarkRemoved_Ignored(needSet, delIDs) == needSet
MarkRemoved_Deleted(needSet, delIDs) ==
    [ x \in DOMAIN needSet \ { delIDs[i] : i \in 1..Len(delIDs) } |-> needSet[x] ]
MarkRemoved(needSet, delIDs) == PutAll(needSet, delIDs, FALSE)

\* for _, id := range addIDs { needSet[id] = true }
MarkAdded_NewOnly(needSet, addIDs) ==
    [ x \in DOMAIN needSet \cup { addIDs[i] : i \in 1..Len(addIDs) } |->
        IF x \in DOMAIN needSet THEN needSet[x] ELSE TRUE ]
MarkAdded(needSet, addIDs) == PutAll(needSet, addIDs, TRUE)

\* add_state_ids IS NOT NULL OR remove_state_ids IS NOT NULL
CarriesState(r) == r.add_state_ids # SqlNull \/ r.remove_state_ids # SqlNull

\* the loop over the rows: stateNeeded after the rows of rowSeq
RECURSIVE StateNeeded(_)
StateNeeded(rowSeq) ==
    IF rowSeq = <<>> THEN EmptyMap
    ELSE LET n == Len(rowSeq)
             before == StateNeeded(SubSeq(rowSeq, 1, n - 1))
             row == rowSeq[n]
             ids == unmarshalStateIDs(
                        IF row.add_state_ids = SqlNull THEN <<>> ELSE row.add_state_ids[1],
                        IF row.remove_state_ids = SqlNull THEN <<>>
                        ELSE row.remove_state_ids[1])
             roomID == UnmarshalEvent(row.headered_event_json).room_id
             needSet == IF roomID \in DOMAIN before THEN before[roomID] ELSE EmptyMap
         IN Put(before, roomID, MarkAdded(MarkRemoved(needSet, ids.delIDs), ids.addIDs))

\* the loop over the rows: eventIDToEvent after the rows of rowSeq
RECURSIVE EventIDToEvent(_)
EventIDToEvent(rowSeq) ==
    IF rowSeq = <<>> THEN EmptyMap
    ELSE LET n == Len(rowSeq)
             row == rowSeq[n]
             event == UnmarshalEvent(row.headered_event_json)
         IN Put(EventIDToEvent(SubSeq(rowSeq, 1, n - 1)), event.event_id,
                [ HeaderedEvent |-> event,
                  StreamPosition |-> row.id,
                  ExcludeFromSync |-> row.exclude_from_sync ])

\* the rows selectStateInRangeSQL returns, in their order
StateRows(rows, low, high, limit) ==
    Limit(OrderByIdAsc({ r \in rows : InRange(r.id, low, high) /\ CarriesState(r) }),
          limit)

\* SelectStateInRange with stateFilter.Limit = limit
SelectStateInRange(rows, low, high, limit) ==
    [ stateNeeded |-> StateNeeded(StateRows(rows, low, high, limit)),
      eventIDToEvent |-> EventIDToEvent(StateRows(rows, low, high, limit)) ]

\* a reader calls SelectStateInRange on the committed log
CallSelectStateInRange(low, high, limit) ==
    /\ result = NoResult
    /\ LET out == SelectStateInRange(committed.output_room_events, low, high, limit)
       IN result' =
             [ op |-> "SelectStateInRange", low |-> low, high |-> high, limit |-> limit,
               stateNeeded |-> out.stateNeeded,
               eventIDToEvent |-> out.eventIDToEvent ]
    /\ UNCHANGED <<dbVars, txnVars, histVars>>
    /\ UNCHANGED <<roomserverVars, appserviceVars>>

\* the arguments of the InsertEvent calls whose state deltas are folded: an event
\* adds nothing, "$e1" or "$e2" to the state, and removes nothing or "$e1"
StateArgs ==
    [ event : Events,
      addState : {NilSlice, Slice(<<"$e1">>), Slice(<<"$e2">>)},
      removeState : {NilSlice, Slice(<<"$e1">>)},
      transactionID : {SqlNull},
      excludeFromSync : {FALSE} ]

StateWriter ==
    /\ result = NoResult
    /\ \E a \in StateArgs : InsertEventTxn(a)

StateInRangeReader ==
    /\ result = NoResult
    /\ \E r \in Ranges, limit \in Limits : CallSelectStateInRange(r[1], r[2], limit)

NextState ==
    \/ StateWriter
    \/ StateInRangeReader
    \/ Return

SpecState == Init /\ [][NextState]_vars

\* the InsertEvent calls of state events that overwrite one another: an event adds
\* itself to the state of its room and removes nothing, or another event of the room
OverwriteArgs ==
    { a \in [ event : ReadEvents,
              addState : { Slice(<<e.event_id>>) : e \in ReadEvents },
              removeState : {NilSlice} \cup { Slice(<<e.event_id>>) : e \in ReadEvents },
              transactionID : {SqlNull},
              excludeFromSync : {FALSE} ] :
        /\ a.addState = Slice(<<a.event.event_id>>)
        /\ a.removeState # a.addState
        /\ a.removeState # NilSlice =>
              \E e \in ReadEvents : /\ e.room_id = a.event.room_id
                                     /\ a.removeState = Slice(<<e.event_id>>) }

OverwriteWriter ==
    /\ result = NoResult
    /\ \E a \in OverwriteArgs : InsertEventTxn(a)

NextOverwrite ==
    \/ OverwriteWriter
    \/ StateInRangeReader
    \/ Return

SpecOverwrite == Init /\ [][NextOverwrite]_vars

(***************************************************************************)
(* The room server's rooms table (roomserver_rooms): InsertRoomNID, and    *)
(* the locked read and the update of a room's latest events, inside        *)
(* database transactions.  A transaction sees the committed rows and its   *)
(* own changes; an insert of a room ID waits for an uncommitted row of the *)
(* same room ID; FOR UPDATE and UPDATE take the row's lock until the       *)
(* transaction ends; AUTO_INCREMENT values are not given back on rollback. *)
(***************************************************************************)
\* cap of the AUTO_INCREMENT counter of room_nid: no row is inserted beyond it
MaxRoomNID == 2

RoomVersions == {"1", "2"}
RoomNIDs == 1..MaxRoomNID

\* eventNIDsAsArray: the text stored in latest_event_nids for a []types.EventNID
eventNIDsAsArray(eventNIDs) ==
    IF eventNIDs.isNil THEN <<"null">> ELSE <<"[">> \o eventNIDs.elems \o <<"]">>

\* json.Unmarshal([]byte(nidsJSON), &eventNIDs)
UnmarshalEventNIDs(nidsJSON) ==
    IF nidsJSON = <<"null">> THEN <<>> ELSE SubSeq(nidsJSON, 2, Len(nidsJSON) - 1)

\* the row INSERT INTO roomserver_rooms (room_id, room_version) creates
NewRoom_NullEvents(roomNID, roomID, roomVersion) ==
    [ room_nid |-> roomNID, room_id |-> roomID,
      latest_event_nids |-> <<"null">>,
      last_event_sent_nid |-> 0,
      state_snapshot_nid |-> 0,
      room_version |-> roomVersion ]
NewRoom(roomNID, roomID, roomVersion) ==
    [ room_nid |-> roomNID, room_id |-> roomID,
      latest_event_nids |-> <<"[", "]">>,
      last_event_sent_nid |-> 0,
      state_snapshot_nid |-> 0,
      room_version |-> roomVersion ]

\* the rows transaction t holds the lock of
LockedBy(t) == { l[2] : l \in { q \in roomLocks : q[1] = t } }

\* what a statement of transaction t sees: its own changes, else committed rows
VisibleRooms(t) ==
    { r \in roomserver_rooms : r.room_nid \in LockedBy(t) }
        \cup { r \in roomsCommitted : r.room_nid \notin LockedBy(t) }

\* CONSTRAINT roomserver_room_id_unique UNIQUE: a row with this room ID exists
RoomIDTaken_Never(rows, roomID) == FALSE
RoomIDTaken(rows, roomID) == \E r \in rows : r.room_id = roomID

\* the insert waits while another transaction's uncommitted row has the room ID
InsertBlocked(t, roomID) ==
    \E r \in roomserver_rooms :
        /\ r.room_id = roomID
        /\ r.room_nid \notin LockedBy(t)
        /\ \A c \in roomsCommitted : c.room_nid # r.room_nid

\* ON CONFLICT DO NOTHING: the existing row stays as it is
RoomOnConflict_UpdateVersion(old, new) == [old EXCEPT !.room_version = new.room_version]
RoomOnConflict(old, new) == old

\* room_nid BIGINT AUTO_INCREMENT: the next value of the counter
NextRoomNID_Reused(seq, rows) ==
    IF rows = {} THEN 1
    ELSE (CHOOSE n \in RoomNIDs :
            (\E r \in rows : r.room_nid = n) /\ \A r \in rows : r.room_nid <= n) + 1
NextRoomNID(seq, rows) == seq + 1

\* the row lock of room_nid is free for transaction t
RoomRowLockFree_TableLock(t, roomNID) == \A l \in roomLocks : l[1] = t
RoomRowLockFree(t, roomNID) == \A l \in roomLocks : l[2] = roomNID => l[1] = t

RoomRow(rows, roomNID) == CHOOSE r \in rows : r.room_nid = roomNID

RoomTxn(pcv, roomID, roomNID, eventNIDs, lastEventSentNID, stateSnapshotNID) ==
    [ pc |-> pcv, roomID |-> roomID, roomNID |-> roomNID, eventNIDs |-> eventNIDs,
      lastEventSentNID |-> lastEventSentNID, stateSnapshotNID |-> stateSnapshotNID ]

\* InsertRoomNID, the insert statement
ExecInsertRoomNID(t, roomID, roomVersion) ==
    /\ rtxn[t].pc = "idle"
    /\ ~InsertBlocked(t, roomID)
    /\ IF RoomIDTaken(VisibleRooms(t), roomID)
       THEN LET old == CHOOSE r \in VisibleRooms(t) : r.room_id = roomID
                after == RoomOnConflict(old, NewRoom(old.room_nid, roomID, roomVersion))
            IN IF after = old
               THEN UNCHANGED <<roomserver_rooms, roomLocks, room_nid_seq>>
               ELSE /\ RoomRowLockFree(t, old.room_nid)
                    /\ roomserver_rooms' =
                          { r \in roomserver_rooms : r.room_nid # old.room_nid }
                              \cup {after}
                    /\ roomLocks' = roomLocks \cup {<<t, old.room_nid>>}
                    /\ UNCHANGED room_nid_seq
       ELSE /\ room_nid_seq < MaxRoomNID
            /\ LET roomNID == NextRoomNID(room_nid_seq, roomserver_rooms)
               IN /\ room_nid_seq' = roomNID
                  /\ roomserver_rooms' =
                        roomserver_rooms \cup {NewRoom(roomNID, roomID, roomVersion)}
                  /\ roomLocks' = roomLocks \cup {<<t, roomNID>>}
    /\ rtxn' = [rtxn EXCEPT ![t] = RoomTxn("inserted", roomID, 0, <<>>, 0, 0)]
    /\ UNCHANGED <<roomsCommitted, nidReturned, nidKept>>
    /\ UNCHANGED <<syncapiVars, snapshotVars, appserviceVars>>

\* InsertRoomNID, return s.SelectRoomNID(ctx, txn, roomID)
SelectRoomNID(t) ==
    /\ rtxn[t].pc = "inserted"
    /\ \E r \in VisibleRooms(t) :
          /\ r.room_id = rtxn[t].roomID
          /\ rtxn' = [rtxn EXCEPT ![t] =
                         RoomTxn("returned", r.room_id, r.room_nid, <<>>, 0, 0)]
          /\ nidReturned' = nidReturned \cup {<<r.room_id, r.room_nid>>}
    /\ UNCHANGED <<roomserver_rooms, roomsCommitted, room_nid_seq, roomLocks, nidKept>>
    /\ UNCHANGED <<syncapiVars, snapshotVars, appserviceVars>>

\* SELECT ... FOR UPDATE takes the row's lock
ForUpdate_NoLock(t, roomNID) == {}
ForUpdate(t, roomNID) == {<<t, roomNID>>}

\* SelectLatestEventsNIDsForUpdate on a room that has a row
SelectLatestEventsNIDsForUpdate(t, roomNID) ==
    /\ rtxn[t].pc = "idle"
    /\ \E r \in roomsCommitted : r.room_nid = roomNID
    /\ RoomRowLockFree(t, roomNID)
    /\ roomLocks' = roomLocks \cup ForUpdate(t, roomNID)
    /\ LET row == RoomRow(roomserver_rooms, roomNID)
       IN rtxn' = [rtxn EXCEPT ![t] =
                      RoomTxn("locked", row.room_id, roomNID,
                              UnmarshalEventNIDs(row.latest_event_nids),
                              row.last_event_sent_nid, row.state_snapshot_nid)]
    /\ UNCHANGED <<roomserver_rooms, roomsCommitted, room_nid_seq, nidReturned, nidKept>>
    /\ UNCHANGED <<syncapiVars, snapshotVars, appserviceVars>>

\* UPDATE roomserver_rooms SET latest_event_nids = $2, last_event_sent_nid = $3,
\* state_snapshot_nid = $4
UpdatedRoom_KeepsSnapshot(row, a) ==
    [row EXCEPT !.latest_event_nids = eventNIDsAsArray(a.eventNIDs),
                !.last_event_sent_nid = a.lastEventSentNID]
UpdatedRoom(row, a) ==
    [row EXCEPT !.latest_event_nids = eventNIDsAsArray(a.eventNIDs),
                !.last_event_sent_nid = a.lastEventSentNID,
                !.state_snapshot_nid = a.stateSnapshotNID]

\* internal.TxStmt(txn, s.updateLatestEventNIDsStmt): the statement runs in the
\* transaction, so the committed rows stay as they are until the commit
TxStmt_AutoCommit(committedRows, row) ==
    { r \in committedRows : r.room_nid # row.room_nid } \cup {row}
TxStmt(committedRows, row) == committedRows

\* UpdateLatestEventNIDs on the room the transaction has read under lock
UpdateLatestEventNIDs(t, a) ==
    /\ rtxn[t].pc = "locked"
    /\ RoomRowLockFree(t, rtxn[t].roomNID)
    /\ LET roomNID == rtxn[t].roomNID
           row == UpdatedRoom(RoomRow(roomserver_rooms, roomNID), a)
       IN /\ roomserver_rooms' =
                { r \in roomserver_rooms : r.room_nid # roomNID } \cup {row}
          /\ roomsCommitted' = TxStmt(roomsCommitted, row)
          /\ roomLocks' = roomLocks \cup {<<t, roomNID>>}
    /\ rtxn' = [rtxn EXCEPT ![t].pc = "updated"]
    /\ UNCHANGED <<room_nid_seq, nidReturned, nidKept>>
    /\ UNCHANGED <<syncapiVars, snapshotVars, appserviceVars>>

\* SelectRoomVersionForRoomID and SelectRoomVersionForRoomNID on the rows a
\* statement sees
SelectRoomVersionForRoomID(rows, roomID) ==
    IF \E r \in rows : r.room_id = roomID
    THEN [ roomVersion |-> (CHOOSE r \in rows : r.room_id = roomID).room_version,
           err |-> "nil" ]
    ELSE [ roomVersion |-> "", err |-> "room not found" ]
SelectRoomVersionForRoomNID(rows, roomNID) ==
    IF \E r \in rows : r.room_nid = roomNID
    THEN [ roomVersion |-> RoomRow(rows, roomNID).room_version, err |-> "nil" ]
    ELSE [ roomVersion |-> "", err |-> "room not found" ]

RoomTxnOpen(t) == rtxn[t].pc \in {"returned", "locked", "updated"}

\* the transaction commits: its changes become the committed rows
RoomCommit(t) ==
    /\ RoomTxnOpen(t)
    /\ roomsCommitted' =
          { r \in roomsCommitted : r.room_nid \notin LockedBy(t) }
              \cup { r \in roomserver_rooms : r.room_nid \in LockedBy(t) }
    /\ roomLocks' = { l \in roomLocks : l[1] # t }
    /\ nidKept' = IF rtxn[t].pc = "returned"
                  THEN nidKept \cup {<<rtxn[t].roomID, rtxn[t].roomNID>>}
                  ELSE nidKept
    /\ rtxn' = [rtxn EXCEPT ![t] = IdleTxn]
    /\ UNCHANGED <<roomserver_rooms, room_nid_seq, nidReturned>>
    /\ UNCHANGED <<syncapiVars, snapshotVars, appserviceVars>>

\* the transaction is rolled back: its changes are undone, the counter is not;
\* result records which transaction state was abandoned
RoomRollback(t) ==
    /\ RoomTxnOpen(t)
    /\ roomserver_rooms' =
          { r \in roomserver_rooms : r.room_nid \notin LockedBy(t) }
              \cup { r \in roomsCommitted : r.room_nid \in LockedBy(t) }
    /\ roomLocks' = { l \in roomLocks : l[1] # t }
    /\ rtxn' = [rtxn EXCEPT ![t] = IdleTxn]
    /\ result' = [ op |-> "Rollback", pc |-> rtxn[t].pc, roomNID |-> rtxn[t].roomNID ]
    /\ UNCHANGED <<roomsCommitted, room_nid_seq, nidReturned, nidKept>>
    /\ UNCHANGED <<dbVars, txnVars, histVars, snapshotVars, appserviceVars>>

\* InsertRoomNID in a transaction of its own that commits at once
InsertRoomNIDTxn(roomID, roomVersion) ==
    /\ \A t \in Txns : ~InsertBlocked(t, roomID)
    /\ IF RoomIDTaken(roomsCommitted, roomID)
       THEN LET old == CHOOSE r \in roomsCommitted : r.room_id = roomID
                after == RoomOnConflict(old, NewRoom(old.room_nid, roomID, roomVersion))
            IN /\ after # old => \A t \in Txns : RoomRowLockFree(t, old.room_nid)
               /\ roomserver_rooms' =
                     IF after = old THEN roomserver_rooms
                     ELSE { r \in roomserver_rooms : r.room_nid # old.room_nid }
                              \cup {after}
               /\ roomsCommitted' =
                     { r \in roomsCommitted : r.room_nid # old.room_nid } \cup {after}
               /\ nidReturned' = nidReturned \cup {<<roomID, old.room_nid>>}
               /\ nidKept' = nidKept \cup {<<roomID, old.room_nid>>}
               /\ result' = [ op |-> "InsertRoomNID", roomID |-> roomID,
                              roomVersion |-> roomVersion, roomNID |-> old.room_nid ]
               /\ UNCHANGED room_nid_seq
       ELSE /\ room_nid_seq < MaxRoomNID
            /\ LET roomNID == NextRoomNID(room_nid_seq, roomserver_rooms)
                   row == NewRoom(roomNID, roomID, roomVersion)
               IN /\ room_nid_seq' = roomNID
                  /\ roomserver_rooms' = roomserver_rooms \cup {row}
                  /\ roomsCommitted' = roomsCommitted \cup {row}
                  /\ nidReturned' = nidReturned \cup {<<roomID, roomNID>>}
                  /\ nidKept' = nidKept \cup {<<roomID, roomNID>>}
                  /\ result' = [ op |-> "InsertRoomNID", roomID |-> roomID,
                                 roomVersion |-> roomVersion, roomNID |-> roomNID ]
    /\ UNCHANGED <<roomLocks, rtxn>>
    /\ UNCHANGED <<dbVars, txnVars, histVars, snapshotVars, appserviceVars>>

\* a Go []types.EventNID
EventNIDSlices == { NilSlice, Slice(<<1>>) }

\* the arguments of UpdateLatestEventNIDs the statement accepts
UpdateArgs ==
    [ eventNIDs : EventNIDSlices,
      lastEventSentNID : {1},
      stateSnapshotNID : {0, 1} ]

\* the arguments the Room Updater passes: the new forward extremities, which
\* include the event it processes, the event it sent, and the NID of a snapshot row
UpdaterArgs ==
    [ eventNIDs : { Slice(<<1>>), Slice(<<2, 1>>) },
      lastEventSentNID : {1},
      stateSnapshotNID : {1, 2} ]

RoomInserter ==
    \E t \in Txns, roomID \in RoomIDs, roomVersion \in RoomVersions :
        ExecInsertRoomNID(t, roomID, roomVersion)
RoomNIDSelector == \E t \in Txns : SelectRoomNID(t)
RoomCreator ==
    \E roomID \in RoomIDs, roomVersion \in RoomVersions :
        InsertRoomNIDTxn(roomID, roomVersion)
RoomLocker == \E t \in Txns, roomNID \in RoomNIDs : SelectLatestEventsNIDsForUpdate(t, roomNID)
RoomWriter == \E t \in Txns, a \in UpdateArgs : UpdateLatestEventNIDs(t, a)
RoomUpdater == \E t \in Txns, a \in UpdaterArgs : UpdateLatestEventNIDs(t, a)
RoomCommitter == \E t \in Txns : RoomCommit(t)
RoomAborter == \E t \in Txns : RoomRollback(t)

\* concurrent InsertRoomNID transactions
NextRoomNIDs ==
    \/ RoomInserter
    \/ RoomNIDSelector
    \/ RoomCommitter
    \/ RoomAborter

SpecRoomNIDs == Init /\ [][NextRoomNIDs]_vars

\* rooms are created, and concurrent transactions lock and update them
NextRooms ==
    \/ RoomCreator
    \/ RoomLocker
    \/ RoomWriter
    \/ RoomCommitter
    \/ RoomAborter

SpecRooms == Init /\ [][NextRooms]_vars

\* the same, with the arguments of the Room Updater
NextRoomUpdater ==
    \/ RoomCreator
    \/ RoomLocker
    \/ RoomUpdater
    \/ RoomCommitter
    \/ RoomAborter

SpecRoomUpdater == Init /\ [][NextRoomUpdater]_vars

(***************************************************************************)
(* The operations of the rooms table called one at a time with txn = nil:  *)
(* each statement runs on the committed rows and commits at once.  result  *)
(* records the call and what it returned.                                  *)
(***************************************************************************)
\* QueryRowContext(...).Scan(...) on a query that yields no row
ErrNoRows == "sql: no rows in result set"

\* json.Unmarshal([]byte(nidsJSON), &eventNIDs) into the nil slice eventNIDs
EventNIDsOf(nidsJSON) ==
    IF nidsJSON = <<"null">> THEN NilSlice ELSE Slice(UnmarshalEventNIDs(nidsJSON))

\* SELECT room_nid FROM roomserver_rooms WHERE room_id = $1
selectRoomNID(rows, roomID) ==
    IF \E r \in rows : r.room_id = roomID
    THEN [ roomNID |-> (CHOOSE r \in rows : r.room_id = roomID).room_nid, err |-> "nil" ]
    ELSE [ roomNID |-> 0, err |-> ErrNoRows ]

\* SELECT latest_event_nids, state_snapshot_nid FROM roomserver_rooms WHERE room_nid = $1
SelectLatestEventNIDs(rows, roomNID) ==
    IF \E r \in rows : r.room_nid = roomNID
    THEN [ eventNIDs |-> EventNIDsOf(RoomRow(rows, roomNID).latest_event_nids),
           stateSnapshotNID |-> RoomRow(rows, roomNID).state_snapshot_nid,
           err |-> "nil" ]
    ELSE [ eventNIDs |-> NilSlice, stateSnapshotNID |-> 0, err |-> ErrNoRows ]

\* SELECT latest_event_nids, last_event_sent_nid, state_snapshot_nid
\* FROM roomserver_rooms WHERE room_nid = $1 FOR UPDATE
selectLatestEventNIDsForUpdate(rows, roomNID) ==
    IF \E r \in rows : r.room_nid = roomNID
    THEN [ eventNIDs |-> EventNIDsOf(RoomRow(rows, roomNID).latest_event_nids),
           lastEventSentNID |-> RoomRow(rows, roomNID).last_event_sent_nid,
           stateSnapshotNID |-> RoomRow(rows, roomNID).state_snapshot_nid,
           err |-> "nil" ]
    ELSE [ eventNIDs |-> NilSlice, lastEventSentNID |-> 0, stateSnapshotNID |-> 0,
           err |-> ErrNoRows ]

\* UPDATE roomserver_rooms SET ... WHERE room_nid = $1: the rows after the statement
UpdatedRooms_AllRooms(rows, roomNID, a) == { UpdatedRoom(r, a) : r \in rows }
UpdatedRooms(rows, roomNID, a) ==
    { IF r.room_nid = roomNID THEN UpdatedRoom(r, a) ELSE r : r \in rows }

\* _, err := stmt.ExecContext(...); return err: the number of rows the UPDATE
\* changed is dropped, and a statement that matches no row is no error
updateLatestEventNIDsErr(rows, roomNID) == "nil"

\* the arguments of the calls
CallUpdateArgs ==
    [ eventNIDs : { NilSlice, Slice(<<2, 1>>) },
      lastEventSentNID : {1},
      stateSnapshotNID : {0, 1} ]

CallSelectRoomNID(roomID) ==
    /\ result' = [ op |-> "SelectRoomNID", roomID |-> roomID,
                   found |-> \E r \in roomsCommitted : r.room_id = roomID,
                   returned |-> selectRoomNID(roomsCommitted, roomID) ]
    /\ UNCHANGED <<dbVars, txnVars, histVars, roomVars, snapshotVars, appserviceVars>>

CallSelectLatestEventNIDs(roomNID) ==
    /\ result' = [ op |-> "SelectLatestEventNIDs", roomNID |-> roomNID,
                   found |-> \E r \in roomsCommitted : r.room_nid = roomNID,
                   returned |-> SelectLatestEventNIDs(roomsCommitted, roomNID) ]
    /\ UNCHANGED <<dbVars, txnVars, histVars, roomVars, snapshotVars, appserviceVars>>

\* with txn = nil the lock of FOR UPDATE is released as the statement ends
CallSelectLatestEventsNIDsForUpdate(roomNID) ==
    /\ \A t \in Txns : RoomRowLockFree(t, roomNID)
    /\ result' = [ op |-> "SelectLatestEventsNIDsForUpdate", roomNID |-> roomNID,
                   found |-> \E r \in roomsCommitted : r.room_nid = roomNID,
                   returned |-> selectLatestEventNIDsForUpdate(roomsCommitted, roomNID) ]
    /\ UNCHANGED <<dbVars, txnVars, histVars, roomVars, snapshotVars, appserviceVars>>

CallUpdateLatestEventNIDs(roomNID, a) ==
    /\ \A t \in Txns : RoomRowLockFree(t, roomNID)
    /\ roomserver_rooms' = UpdatedRooms(roomserver_rooms, roomNID, a)
    /\ roomsCommitted' = UpdatedRooms(roomsCommitted, roomNID, a)
    /\ result' = [ op |-> "UpdateLatestEventNIDs", roomNID |-> roomNID, args |-> a,
                   found |-> \E r \in roomsCommitted : r.room_nid = roomNID,
                   returned |-> [ err |-> updateLatestEventNIDsErr(roomsCommitted, roomNID) ] ]
    /\ UNCHANGED <<room_nid_seq, roomLocks, rtxn, nidReturned, nidKept>>
    /\ UNCHANGED <<dbVars, txnVars, histVars, snapshotVars, appserviceVars>>

CallSelectRoomVersionForRoomID(roomID) ==
    /\ result' = [ op |-> "SelectRoomVersionForRoomID", roomID |-> roomID,
                   found |-> \E r \in roomsCommitted : r.room_id = roomID,
                   returned |-> SelectRoomVersionForRoomID(roomsCommitted, roomID) ]
    /\ UNCHANGED <<dbVars, txnVars, histVars, roomVars, snapshotVars, appserviceVars>>

CallSelectRoomVersionForRoomNID(roomNID) ==
    /\ result' = [ op |-> "SelectRoomVersionForRoomNID", roomNID |-> roomNID,
                   found |-> \E r \in roomsCommitted : r.room_nid = roomNID,
                   returned |-> SelectRoomVersionForRoomNID(roomsCommitted, roomNID) ]
    /\ UNCHANGED <<dbVars, txnVars, histVars, roomVars, snapshotVars, appserviceVars>>

RoomNIDCaller == \E roomID \in RoomIDs : CallSelectRoomNID(roomID)
LatestEventNIDsCaller == \E roomNID \in RoomNIDs : CallSelectLatestEventNIDs(roomNID)
LatestEventNIDsForUpdateCaller ==
    \E roomNID \in RoomNIDs : CallSelectLatestEventsNIDsForUpdate(roomNID)
UpdateLatestEventNIDsCaller ==
    \E roomNID \in RoomNIDs, a \in CallUpdateArgs : CallUpdateLatestEventNIDs(roomNID, a)
RoomVersionForRoomIDCaller ==
    \E roomID \in RoomIDs : CallSelectRoomVersionForRoomID(roomID)
RoomVersionForRoomNIDCaller ==
    \E roomNID \in RoomNIDs : CallSelectRoomVersionForRoomNID(roomNID)

\* rooms are created, and the operations are called on any room, stored or not
NextRoomCalls ==
    \/ RoomCreator
    \/ RoomNIDCaller
    \/ LatestEventNIDsCaller
    \/ LatestEventNIDsForUpdateCaller
    \/ UpdateLatestEventNIDsCaller
    \/ RoomVersionForRoomIDCaller
    \/ RoomVersionForRoomNIDCaller

SpecRoomCalls == Init /\ [][NextRoomCalls]_vars

(***************************************************************************)
(* The state snapshot table (roomserver_state_snapshots) and insertState.  *)
(* The statement runs outside any transaction, on one connection.          *)
(***************************************************************************)
\* cap of the number of snapshot rows: no row is inserted beyond it
MaxSnapshotNID == 3

\* the lists of state block NIDs the callers pass
StateBlockNIDLists == { <<>>, <<1>>, <<1, 2>>, <<2, 1>> }

\* pq.Int64Array(nids), as the text bound to the statement
Int64Array(nids) == <<"{">> \o nids \o <<"}">>

\* state_snapshot_nid INTEGER PRIMARY KEY AUTOINCREMENT: one more than the largest
\* value the table has ever held
NextSnapshotNID_Deduplicated(seq, rows, roomNID, stateBlockNIDs) ==
    IF \E r \in rows : r.room_nid = roomNID /\ r.state_block_nids = Int64Array(stateBlockNIDs)
    THEN (CHOOSE r \in rows :
            r.room_nid = roomNID /\ r.state_block_nids = Int64Array(stateBlockNIDs)
         ).state_snapshot_nid
    ELSE seq + 1
NextSnapshotNID(seq, rows, roomNID, stateBlockNIDs) == seq + 1

\* insertState: the INSERT, then the SELECT of the row of last_insert_rowid()
insertState(roomNID, stateBlockNIDs) ==
    /\ state_snapshot_seq < MaxSnapshotNID
    /\ LET stateNID == NextSnapshotNID(state_snapshot_seq, roomserver_state_snapshots,
                                       roomNID, stateBlockNIDs)
       IN /\ roomserver_state_snapshots' =
                roomserver_state_snapshots \cup
                    { [ state_snapshot_nid |-> stateNID,
                        room_nid |-> roomNID,
                        state_block_nids |-> Int64Array(stateBlockNIDs) ] }
          /\ state_snapshot_seq' =
                IF stateNID > state_snapshot_seq THEN stateNID ELSE state_snapshot_seq
          /\ snapshotsReturned' = snapshotsReturned \cup {stateNID}
          /\ result' = [ op |-> "insertState", roomNID |-> roomNID,
                         stateBlockNIDs |-> stateBlockNIDs, stateNID |-> stateNID ]
    /\ UNCHANGED <<dbVars, txnVars, histVars, roomVars, appserviceVars>>

SnapshotInserter ==
    \E roomNID \in RoomNIDs, stateBlockNIDs \in StateBlockNIDLists :
        insertState(roomNID, stateBlockNIDs)

\* the lists of state snapshot NIDs the callers ask for
StateNIDLists ==
    {<<>>} \cup { <<n>> : n \in 1..MaxSnapshotNID }
           \cup { <<n, m>> : n \in 1..MaxSnapshotNID, m \in 1..MaxSnapshotNID }

\* how the single parameter of "IN ($1)" is bound: as the elements of the array, or
\* as the one text value pq.Int64Array produces, which no integer key equals
Bindings == { "elements", "text" }

\* WHERE state_snapshot_nid IN ($1)
SnapshotsIn(rows, stateNIDs, binding) ==
    IF binding = "elements"
    THEN { r \in rows : \E i \in 1..Len(stateNIDs) : r.state_snapshot_nid = stateNIDs[i] }
    ELSE {}

RECURSIVE OrderBySnapshotNID(_)
\* ORDER BY state_snapshot_nid ASC
OrderBySnapshotNID(rows) ==
    IF rows = {} THEN <<>>
    ELSE LET first == CHOOSE r \in rows :
                         \A q \in rows : r.state_snapshot_nid <= q.state_snapshot_nid
         IN <<first>> \o OrderBySnapshotNID(rows \ {first})

\* rows.Scan into a pq.Int64Array: the elements between the braces
ScanInt64Array(text) == SubSeq(text, 2, Len(text) - 1)

\* the zero value of types.StateBlockNIDList
ZeroStateBlockNIDList == [ StateSnapshotNID |-> 0, StateBlockNIDs |-> NilSlice ]

\* results := make([]types.StateBlockNIDList, len(stateNIDs)), then one element
\* filled per row, in the order of the rows
FillResults(rowSeq, n) ==
    [ i \in 1..n |->
        IF i <= Len(rowSeq)
        THEN [ StateSnapshotNID |-> rowSeq[i].state_snapshot_nid,
               StateBlockNIDs |-> Slice(ScanInt64Array(rowSeq[i].state_block_nids)) ]
        ELSE ZeroStateBlockNIDList ]

\* if i != len(stateNIDs): fewer rows than requested NIDs
NIDsMissing_Ignored(i, n) == FALSE
NIDsMissing(i, n) == i # n

\* what bulkSelectStateBlockNIDs returns: (results, nil), or (nil, the error)
bulkSelectStateBlockNIDs(rows, stateNIDs, binding) ==
    LET rowSeq == OrderBySnapshotNID(SnapshotsIn(rows, stateNIDs, binding))
    IN IF NIDsMissing(Len(rowSeq), Len(stateNIDs))
       THEN [ results |-> NilSlice, err |-> "state NIDs missing from the database" ]
       ELSE [ results |-> Slice(FillResults(rowSeq, Len(stateNIDs))), err |-> "nil" ]

\* a caller looks up the state block NIDs of a list of snapshots
CallBulkSelectStateBlockNIDs(stateNIDs, binding) ==
    /\ result' = [ op |-> "bulkSelectStateBlockNIDs", stateNIDs |-> stateNIDs,
                   binding |-> binding,
                   returned |-> bulkSelectStateBlockNIDs(roomserver_state_snapshots,
                                                         stateNIDs, binding) ]
    /\ UNCHANGED <<dbVars, txnVars, histVars, roomVars, appserviceVars>>
    /\ UNCHANGED <<roomserver_state_snapshots, state_snapshot_seq, snapshotsReturned>>

SnapshotSelector ==
    \E stateNIDs \in StateNIDLists, binding \in Bindings :
        CallBulkSelectStateBlockNIDs(stateNIDs, binding)

NextSnapshots ==
    \/ SnapshotInserter
    \/ SnapshotSelector

SpecSnapshots == Init /\ [][NextSnapshots]_vars

(***************************************************************************)
(* The application service's transaction ID counter (appservice_counters)  *)
(* and selectTxnID.  The statement text holds a SELECT and an UPDATE; it   *)
(* runs outside any transaction, so each of the two commits on its own and *)
(* the statements of concurrent calls interleave.                          *)
(***************************************************************************)
\* cap of last_id: no call starts at or beyond it
MaxTxnID == 6

\* UPDATE appservice_counters SET last_id=last_id+1 WHERE name='txn_id'
NextLastID_Same(lastID) == lastID
NextLastID(lastID) == lastID + 1

\* SELECT last_id FROM appservice_counters WHERE name='txn_id'
SelectLastID(c) ==
    /\ txnIDCall[c].pc = "idle"
    /\ appservice_counters < MaxTxnID
    /\ txnIDCall' = [txnIDCall EXCEPT ![c] = [pc |-> "selected",
                                              txnID |-> appservice_counters]]
    /\ UNCHANGED <<appservice_counters, txnIDsReturned>>
    /\ UNCHANGED <<syncapiVars, roomserverVars>>

\* the UPDATE, then Scan(&txnID) of the row of the SELECT: selectTxnID returns
UpdateLastID(c) ==
    /\ txnIDCall[c].pc = "selected"
    /\ appservice_counters' = NextLastID(appservice_counters)
    /\ txnIDsReturned' = txnIDsReturned \cup {txnIDCall[c].txnID}
    /\ txnIDCall' = [txnIDCall EXCEPT ![c] = IdleCall]
    /\ result' = [ op |-> "selectTxnID", txnID |-> txnIDCall[c].txnID ]
    /\ UNCHANGED <<dbVars, txnVars, histVars, roomserverVars>>

\* concurrent callers of selectTxnID
NextTxnIDs ==
    \E c \in Txns :
        \/ SelectLastID(c)
        \/ UpdateLastID(c)

SpecTxnIDs == Init /\ [][NextTxnIDs]_vars

(***************************************************************************)
(* Client API: GET /rooms/{roomID}/event/{eventID}.  The handler keeps no  *)
(* state of its own; what it answers is a function of the requesting       *)
(* device and of what the roomserver answers to its two queries.           *)
(***************************************************************************)
MaxStateEvents == 2

UserIDs == {"@alice:hs", "@bob:hs"}

\* gomatrixserverlib.Event.Membership(): the membership of a member event, or
\* an error when its content cannot be read
Memberships == {"join", "leave"}
ErrMembership == "error"

\* the state events a QueryStateAfterEventsResponse may carry
StateEvents == [ state_key : UserIDs, membership : Memberships \cup {ErrMembership} ]

RECURSIVE StateEventLists(_)
StateEventLists(n) ==
    IF n = 0 THEN { <<>> }
    ELSE StateEventLists(n - 1)
         \cup { Append(l, e) : l \in { q \in StateEventLists(n - 1) : Len(q) = n - 1 },
                               e \in StateEvents }

\* what the roomserver answers: whether each query fails, whether the
\* requested event is stored locally, and the state after its prev events
RoomserverAPIs ==
    [ eventsErr : BOOLEAN, stored : BOOLEAN, stateErr : BOOLEAN,
      RoomExists : BOOLEAN, PrevEventsExist : BOOLEAN,
      StateEvents : StateEventLists(MaxStateEvents) ]

\* rsAPI.QueryEventsByID for the one requested event ID
QueryEventsByID(rsAPI, eventID) ==
    [ err |-> rsAPI.eventsErr,
      Events |-> IF rsAPI.stored /\ ~rsAPI.eventsErr THEN << eventID >> ELSE << >> ]

\* rsAPI.QueryStateAfterEvents for the requester's membership tuple
QueryStateAfterEvents(rsAPI) ==
    [ err |-> rsAPI.stateErr,
      RoomExists |-> rsAPI.RoomExists,
      PrevEventsExist |-> rsAPI.PrevEventsExist,
      StateEvents |-> rsAPI.StateEvents ]

NotFoundMessage == "The event was not found or you do not have permission to read this event"

NotFound(msg) == [ errcode |-> "M_NOT_FOUND", error |-> msg ]

InternalServerError ==
    [ Code |-> 500, JSON |-> [ errcode |-> "M_UNKNOWN", error |-> "Internal Server Error" ] ]

\* the three places where the handler answers "not found"
EventNotFound == [ Code |-> 404, JSON |-> NotFound(NotFoundMessage) ]

PrevEventsNotFound == [ Code |-> 404, JSON |-> NotFound(NotFoundMessage) ]

NotJoinedNotFound_Forbidden ==
    [ Code |-> 403, JSON |-> [ errcode |-> "M_FORBIDDEN", error |-> NotFoundMessage ] ]

NotJoinedNotFound == [ Code |-> 404, JSON |-> NotFound(NotFoundMessage) ]

ToClientEvent(eventID) == [ Code |-> 200, JSON |-> [ event_id |-> eventID ] ]

IsJoin_AnyMembership(membership) == membership \in Memberships

IsJoin(membership) == membership = "join"

\* the loop over stateResp.StateEvents: the first event of the requester
\* that is unreadable answers 500, the first that is a join answers 200
RECURSIVE MembershipLoop(_, _, _)
MembershipLoop(stateEvents, userID, requestedEvent) ==
    IF stateEvents = << >> THEN NotJoinedNotFound
    ELSE LET stateEvent == Head(stateEvents)
         IN IF stateEvent.state_key = userID
            THEN IF stateEvent.membership = ErrMembership THEN InternalServerError
                 ELSE IF IsJoin(stateEvent.membership) THEN ToClientEvent(requestedEvent)
                 ELSE MembershipLoop(Tail(stateEvents), userID, requestedEvent)
            ELSE MembershipLoop(Tail(stateEvents), userID, requestedEvent)

GetEvent(userID, eventID, rsAPI) ==
    LET eventsResp == QueryEventsByID(rsAPI, eventID)
        stateResp == QueryStateAfterEvents(rsAPI)
    IN IF eventsResp.err THEN InternalServerError
       ELSE IF Len(eventsResp.Events) = 0 THEN EventNotFound
       ELSE IF stateResp.err THEN InternalServerError
       ELSE IF ~stateResp.RoomExists THEN InternalServerError
       ELSE IF ~stateResp.PrevEventsExist THEN PrevEventsNotFound
       ELSE MembershipLoop(stateResp.StateEvents, userID, eventsResp.Events[1])

CallGetEvent(userID, eventID, rsAPI) ==
    /\ result = NoResult
    /\ result' = [ op |-> "GetEvent", userID |-> userID, eventID |-> eventID,
                   rsAPI |-> rsAPI, response |-> GetEvent(userID, eventID, rsAPI) ]
    /\ UNCHANGED <<dbVars, txnVars, histVars, roomVars, snapshotVars, appserviceVars>>

GetEventCaller ==
    \E userID \in UserIDs, rsAPI \in RoomserverAPIs : CallGetEvent(userID, "$e1", rsAPI)

NextGetEvent ==
    \/ GetEventCaller
    \/ Return

SpecGetEvent == Init /\ [][NextGetEvent]_vars

(***************************************************************************)
(* Storage selectors: which engine's constructor a data source name opens. *)
(* A data source name is a sequence of pieces of text; url.Parse is        *)
(* modelled by what it does to them.                                       *)
(***************************************************************************)
MaxDSNLen == 3

\* pieces made of letters only, a digit, the colon, a path, a control byte
Words == {"postgres", "mysql", "file", "FILE", "sqlite"}
Digit == "1"
Colon == ":"
Path == "/db"
CtlByte == "<DEL>"
Pieces == Words \cup {Digit, Colon, Path, CtlByte}

RECURSIVE PieceLists(_)
PieceLists(n) ==
    IF n = 0 THEN { <<>> }
    ELSE PieceLists(n - 1)
         \cup { Append(l, p) : l \in { q \in PieceLists(n - 1) : Len(q) = n - 1 },
                               p \in Pieces }

DataSourceNames == PieceLists(MaxDSNLen)

\* strings.ToLower on a piece
ToLower(piece) == IF piece = "FILE" THEN "file" ELSE piece

\* url.getScheme: the text before the first colon when it is letters, then
\* letters and digits; a leading colon is an error; anything else, no scheme
RECURSIVE getScheme(_, _)
getScheme(rawURL, i) ==
    IF i > Len(rawURL) THEN [ scheme |-> << >>, rest |-> rawURL, err |-> "nil" ]
    ELSE IF rawURL[i] \in Words THEN getScheme(rawURL, i + 1)
    ELSE IF rawURL[i] = Digit
         THEN IF i = 1 THEN [ scheme |-> << >>, rest |-> rawURL, err |-> "nil" ]
              ELSE getScheme(rawURL, i + 1)
    ELSE IF rawURL[i] = Colon
         THEN IF i = 1 THEN [ scheme |-> << >>, rest |-> << >>,
                              err |-> "missing protocol scheme" ]
              ELSE [ scheme |-> SubSeq(rawURL, 1, i - 1),
                     rest |-> SubSeq(rawURL, i + 1, Len(rawURL)), err |-> "nil" ]
    ELSE [ scheme |-> << >>, rest |-> rawURL, err |-> "nil" ]

\* the first path segment: the text before the first slash
RECURSIVE FirstSegment(_)
FirstSegment(rest) ==
    IF rest = << >> \/ Head(rest) = Path THEN << >>
    ELSE << Head(rest) >> \o FirstSegment(Tail(rest))

Contains(text, piece) == \E i \in 1..Len(text) : text[i] = piece

\* url.Parse: the lower-cased scheme of the data source name, or an error
Parse(rawURL) ==
    IF Contains(rawURL, CtlByte)
    THEN [ Scheme |-> << >>, err |-> "invalid control character in URL" ]
    ELSE LET s == getScheme(rawURL, 1)
         IN IF s.err # "nil" THEN [ Scheme |-> << >>, err |-> s.err ]
            ELSE IF s.scheme = << >> /\ Contains(FirstSegment(s.rest), Colon)
                 THEN [ Scheme |-> << >>,
                        err |-> "first path segment in URL cannot contain colon" ]
            ELSE [ Scheme |-> [ i \in 1..Len(s.scheme) |-> ToLower(s.scheme[i]) ],
                   err |-> "nil" ]

\* an engine's constructor: the database it opened, or its own error
Engines == {"postgres", "mysql", "sqlite3"}

Nil == [ engine |-> "nil" ]

OpenDatabase(engine, dataSourceName, opens) ==
    IF opens THEN [ db |-> [ engine |-> engine, dataSourceName |-> dataSourceName ],
                    err |-> "nil", opened |-> engine ]
    ELSE [ db |-> Nil, err |-> "open failed", opened |-> engine ]

\* the switch on uri.Scheme of the appservice and server-key selectors
SelectEngine_NoMySQL(scheme) ==
    IF scheme = << "file" >> THEN "sqlite3" ELSE "postgres"

SelectEngine(scheme) ==
    IF scheme = << "postgres" >> THEN "postgres"
    ELSE IF scheme = << "mysql" >> THEN "mysql"
    ELSE IF scheme = << "file" >> THEN "sqlite3"
    ELSE "postgres"

\* appservice/storage.NewDatabase
AppserviceNewDatabase(dataSourceName, opens) ==
    LET uri == Parse(dataSourceName)
    IN IF uri.err # "nil" THEN OpenDatabase("postgres", dataSourceName, opens)
       ELSE OpenDatabase(SelectEngine(uri.Scheme), dataSourceName, opens)

\* serverkeyapi/storage.NewDatabase
ServerKeyNewDatabase(dataSourceName, opens) ==
    LET uri == Parse(dataSourceName)
    IN IF uri.err # "nil" THEN OpenDatabase("postgres", dataSourceName, opens)
       ELSE OpenDatabase(SelectEngine(uri.Scheme), dataSourceName, opens)

\* the one case of the public rooms selector that opens a database
PublicRoomsOpens_AlsoPostgres(scheme) == scheme \in { << "file" >>, << "postgres" >> }

PublicRoomsOpens(scheme) == scheme = << "file" >>

PublicRoomsError(scheme) ==
    IF scheme = << "mysql" >> THEN "Cannot use mysql implementation"
    ELSE "Cannot use postgres implementation"

\* publicroomsapi/storage.NewPublicRoomsServerDatabase
NewPublicRoomsServerDatabase(dataSourceName, opens) ==
    LET uri == Parse(dataSourceName)
    IN IF uri.err # "nil" THEN [ db |-> Nil, err |-> uri.err, opened |-> "none" ]
       ELSE IF PublicRoomsOpens(uri.Scheme)
            THEN OpenDatabase("sqlite3", dataSourceName, opens)
       ELSE [ db |-> Nil, err |-> PublicRoomsError(uri.Scheme), opened |-> "none" ]

CallNewDatabase(op, dataSourceName, opens, returned_) ==
    /\ result = NoResult
    /\ result' = [ op |-> op, dataSourceName |-> dataSourceName, opens |-> opens,
                   returned |-> returned_ ]
    /\ UNCHANGED <<dbVars, txnVars, histVars, roomVars, snapshotVars, appserviceVars>>

AppserviceOpener ==
    \E dataSourceName \in DataSourceNames, opens \in BOOLEAN :
        CallNewDatabase("appservice.NewDatabase", dataSourceName, opens,
                        AppserviceNewDatabase(dataSourceName, opens))

ServerKeyOpener ==
    \E dataSourceName \in DataSourceNames, opens \in BOOLEAN :
        CallNewDatabase("serverkeyapi.NewDatabase", dataSourceName, opens,
                        ServerKeyNewDatabase(dataSourceName, opens))

PublicRoomsOpener ==
    \E dataSourceName \in DataSourceNames, opens \in BOOLEAN :
        CallNewDatabase("NewPublicRoomsServerDatabase", dataSourceName, opens,
                        NewPublicRoomsServerDatabase(dataSourceName, opens))

NextSelectors ==
    \/ AppserviceOpener
    \/ ServerKeyOpener
    \/ PublicRoomsOpener
    \/ Return

SpecSelectors == Init /\ [][NextSelectors]_vars

(***************************************************************************)
(* Sanity of the model: types, and what the database contract gives.       *)
(***************************************************************************)
RoomsTypeOK ==
    /\ room_nid_seq \in 0..MaxRoomNID
    /\ roomLocks \subseteq Txns \X RoomNIDs
    /\ \A t \in Txns : rtxn[t].pc \in {"idle", "inserted", "returned", "locked", "updated"}
    /\ \A r \in roomserver_rooms \cup roomsCommitted : r.room_nid \in 1..room_nid_seq
    /\ \A l, q \in roomLocks : l[2] = q[2] => l[1] = q[1]

TypeOK ==
    /\ stream_id \in 0..MaxPos
    /\ lock \subseteq Txns /\ Cardinality(lock) <= 1
    /\ pc \in [Txns -> {"idle", "increase", "select", "insert", "done", "failed"}]
    /\ streamPos \in [Txns -> 0..MaxPos]

\* event_id and id are unique keys of the log, and no statement fails on them
KeysOK ==
    /\ \A r, q \in output_room_events :
          (r.event_id = q.event_id \/ r.id = q.id) => r = q
    /\ \A t \in Txns : pc[t] # "failed"

\* the row of an event ID in a table
RowsOf(rows, eventID) == { r \in rows : r.event_id = eventID }

\* nextStreamID returns in this step of transaction t
Returns(t) == pc[t] = "select" /\ pc'[t] = "insert"
\* the insert statement of transaction t succeeds in this step
Inserts(t) == pc[t] = "insert" /\ pc'[t] = "done"

(***************************************************************************)
(* C1: two transactions that call nextStreamID concurrently return         *)
(* different stream positions, in every interleaving of their UPDATE and   *)
(* SELECT steps.                                                           *)
(***************************************************************************)
\* C1 as stated: whatever became of the other transaction, a call never holds a
\* position that a call concurrent with it returned
C1_ConcurrentCallsDiffer ==
    \A t \in Holding : streamPos[t] \notin seenAll[t]

\* C1, amended: a call never holds a position returned by a concurrent call whose
\* transaction committed or is still open; only the position of a concurrent
\* transaction that was rolled back can be returned again
C1_ConcurrentLiveCallsDiffer ==
    \A t \in Holding : streamPos[t] \notin seenLive[t]

\* a call has just returned its position, after a concurrent call returned one
C1_Witness ==
    \E t \in Txns : pc[t] = "insert" /\ seenLive[t] # {} /\ streamPos[t] \notin seenLive[t]

(***************************************************************************)
(* C2: over the lifetime of a deployment no position is returned by        *)
(* nextStreamID more than once, whatever the outcome (commit, error or     *)
(* rollback) of the transactions that obtained them.                       *)
(***************************************************************************)
\* C2 as stated: the position a call returns was never returned before
C2_NeverReturnedTwice ==
    [][\A t \in Txns : Returns(t) => streamPos'[t] \notin returned]_vars

\* C2, amended: a position returned in a transaction that committed or is still
\* open is returned by no other call; a rollback restores the counter, and the
\* position of the rolled-back transaction is returned again by the next call
C2_KeptNeverReturnedTwice ==
    \A t \in Holding :
        /\ streamPos[t] \notin kept
        /\ \A u \in Holding : u # t => streamPos[u] # streamPos[t]

\* after a commit, a call holds the position that a rolled-back transaction had
C2_Witness ==
    \E t \in Holding :
        /\ streamPos[t] \in seenAll[t] \ seenLive[t]
        /\ kept # {}
        /\ streamPos[t] \notin kept

C4_ReturnsStoredPosition ==
    \A t \in Txns :
        pc[t] = "done" =>
            /\ Cardinality(RowsOf(output_room_events, ev[t])) = 1
            /\ \A r \in RowsOf(output_room_events, ev[t]) : r.id = streamPos[t]

(***************************************************************************)
(* C5: an InsertEvent for an event ID that has a row changes at most the   *)
(* exclude_from_sync column of that row: its position, room, event JSON,   *)
(* state IDs, session ID and transaction ID stay, and no other row is      *)
(* changed or deleted.                                                     *)
(***************************************************************************)
\* the columns of a row other than exclude_from_sync
Frame(r) ==
    <<r.id, r.room_id, r.event_id, r.headered_event_json, r.add_state_ids,
      r.remove_state_ids, r.session_id, r.transaction_id>>

C5_UpsertChangesOnlyExcludeFromSync ==
    [][\A t \in Txns :
         (Inserts(t) /\ RowsOf(output_room_events, ev'[t]) # {}) =>
            /\ Cardinality(output_room_events') = Cardinality(output_room_events)
            /\ \A r \in output_room_events :
                  IF r.event_id = ev'[t]
                  THEN \E q \in output_room_events' : Frame(q) = Frame(r)
                  ELSE r \in output_room_events']_vars

\* an event was inserted again with another flag and another transaction ID, and
\* its row kept the position and the transaction ID of the first insert
C5_Witness ==
    \E t \in Txns : \E r \in output_room_events : \E q \in committed.output_room_events :
        /\ pc[t] = "done"
        /\ r.event_id = ev[t]
        /\ q.event_id = ev[t]
        /\ r.id # streamPos[t]
        /\ q.exclude_from_sync # r.exclude_from_sync
        /\ r.transaction_id # SqlNull

(***************************************************************************)
(* What the readers' claims speak of.                                      *)
(***************************************************************************)
\* the log the running query reads
Log == committed.output_room_events

\* the entries of a room whose position p satisfies low < p <= high
EntriesIn(roomID, low, high) ==
    { r \in Log : r.room_id = roomID /\ low < r.id /\ r.id <= high }

PositionsOf(events) == { events[i].StreamPosition : i \in 1..Len(events) }

Ascending(events) ==
    \A i \in 1..(Len(events) - 1) : events[i].StreamPosition < events[i + 1].StreamPosition

Descending(events) ==
    \A i \in 1..(Len(events) - 1) : events[i].StreamPosition > events[i + 1].StreamPosition

\* every returned entry is the entry the log holds at its position
FromLog(events) ==
    \A i \in 1..Len(events) : \E r \in Log :
        /\ r.id = events[i].StreamPosition
        /\ r.event_id = events[i].HeaderedEvent.event_id
        /\ r.room_id = events[i].HeaderedEvent.room_id
        /\ r.exclude_from_sync = events[i].ExcludeFromSync

\* events are exactly the min(limit, n) entries of entries with the highest positions
HighestOf(entries, limit, events) ==
    /\ Len(events) = Min(limit, Cardinality(entries))
    /\ Cardinality(PositionsOf(events)) = Len(events)
    /\ PositionsOf(events) \subseteq { r.id : r \in entries }
    /\ \A r \in entries : r.id \notin PositionsOf(events) =>
          \A p \in PositionsOf(events) : r.id < p

\* events are exactly the min(limit, n) entries of entries with the lowest positions
LowestOf(entries, limit, events) ==
    /\ Len(events) = Min(limit, Cardinality(entries))
    /\ Cardinality(PositionsOf(events)) = Len(events)
    /\ PositionsOf(events) \subseteq { r.id : r \in entries }
    /\ \A r \in entries : r.id \notin PositionsOf(events) =>
          \A p \in PositionsOf(events) : r.id > p

(***************************************************************************)
(* C6: SelectRecentEvents returns exactly the min(limit, n) entries with   *)
(* the highest positions among the n entries of the room with              *)
(* Low < p <= High, ascending when chronologicalOrder is set and           *)
(* descending otherwise.                                                   *)
(***************************************************************************)
\* C6 as stated: n counts every entry of the room in the range, whatever
\* onlySyncEvents is
C6_RecentEventsHighestOfRange ==
    result.op = "SelectRecentEvents" =>
        /\ HighestOf(EntriesIn(result.roomID, result.low, result.high), result.limit,
                     result.events)
        /\ FromLog(result.events)
        /\ IF result.chronologicalOrder
           THEN Ascending(result.events) ELSE Descending(result.events)

\* C6, amended: when onlySyncEvents is set, the n entries are those of the room in
\* the range that are not excluded from sync
C6_RecentEventsHighestOfSelected ==
    result.op = "SelectRecentEvents" =>
        /\ HighestOf({ r \in EntriesIn(result.roomID, result.low, result.high) :
                         result.onlySyncEvents => ~r.exclude_from_sync },
                     result.limit, result.events)
        /\ FromLog(result.events)
        /\ IF result.chronologicalOrder
           THEN Ascending(result.events) ELSE Descending(result.events)

\* a query in chronological order whose limit cuts off the lowest of the entries
\* that are not excluded from sync, with an excluded entry above them
C6_Witness ==
    /\ result.op = "SelectRecentEvents"
    /\ result.chronologicalOrder
    /\ result.onlySyncEvents
    /\ result.limit = 1
    /\ Len(result.events) = 1
    /\ \E r, q \in EntriesIn(result.roomID, result.low, result.high) :
          /\ r.exclude_from_sync
          /\ r.id > result.events[1].StreamPosition
          /\ ~q.exclude_from_sync
          /\ q.id < result.events[1].StreamPosition

(***************************************************************************)
(* C7: SelectEarlyEvents returns exactly the min(limit, n) entries with    *)
(* the lowest positions among the n entries of the room with               *)
(* Low < p <= High, in strictly ascending order, and no entry of another   *)
(* room.                                                                   *)
(***************************************************************************)
C7_EarlyEventsLowestOfRange ==
    result.op = "SelectEarlyEvents" =>
        /\ LowestOf(EntriesIn(result.roomID, result.low, result.high), result.limit,
                    result.events)
        /\ FromLog(result.events)
        /\ Ascending(result.events)
        /\ \A i \in 1..Len(result.events) :
              result.events[i].HeaderedEvent.room_id = result.roomID

\* a query whose limit cuts off the higher entry of the room, with an entry of
\* another room at the lowest position of the range
C7_Witness ==
    /\ result.op = "SelectEarlyEvents"
    /\ result.limit = 1
    /\ Len(result.events) = 1
    /\ Cardinality(EntriesIn(result.roomID, result.low, result.high)) = 2
    /\ \E r \in Log :
          /\ r.room_id # result.roomID
          /\ result.low < r.id
          /\ r.id < result.events[1].StreamPosition

(***************************************************************************)
(* C8: for positions a <= m <= b, SelectEarlyEvents over (a, m] and        *)
(* SelectRecentEvents of all events over (m, b], each with a limit that is *)
(* at least the number of matching entries, return every entry of the room *)
(* in (a, b] exactly once.                                                 *)
(***************************************************************************)
C8_ComplementaryRangesPartition ==
    ( /\ result.op = "EarlyThenRecent"
      /\ result.limit >= Cardinality(EntriesIn(result.roomID, result.low, result.mid))
      /\ result.limit >= Cardinality(EntriesIn(result.roomID, result.mid, result.high)) )
    =>
        /\ PositionsOf(result.early) \cup PositionsOf(result.recent)
              = { r.id : r \in EntriesIn(result.roomID, result.low, result.high) }
        /\ PositionsOf(result.early) \cap PositionsOf(result.recent) = {}
        /\ Len(result.early) + Len(result.recent)
              = Cardinality(EntriesIn(result.roomID, result.low, result.high))
        /\ FromLog(result.early)
        /\ FromLog(result.recent)

\* a scan with entries on both sides of m, one of them at m itself
C8_Witness ==
    /\ result.op = "EarlyThenRecent"
    /\ result.early # <<>>
    /\ result.recent # <<>>
    /\ result.mid \in PositionsOf(result.early)
    /\ result.limit >= Len(result.early) + Len(result.recent)

(***************************************************************************)
(* C9: with onlySyncEvents set SelectRecentEvents returns no entry whose   *)
(* exclude_from_sync is true and applies the limit after that filter; with *)
(* onlySyncEvents unset, excluded entries are returned like any other.     *)
(***************************************************************************)
C9_ExcludedEntriesAndLimit ==
    result.op = "SelectRecentEvents" =>
        LET inRange == EntriesIn(result.roomID, result.low, result.high)
            visible == { r \in inRange : ~r.exclude_from_sync }
        IN IF result.onlySyncEvents
           THEN /\ \A i \in 1..Len(result.events) : ~result.events[i].ExcludeFromSync
                /\ \A r \in inRange : r.exclude_from_sync =>
                      r.id \notin PositionsOf(result.events)
                /\ Len(result.events) = Min(result.limit, Cardinality(visible))
           ELSE \A r \in inRange :
                   r.id \in PositionsOf(result.events)
                      <=> Cardinality({ q \in inRange : q.id > r.id }) < result.limit

\* the limit is filled with sync-visible entries below an excluded entry
C9_Witness ==
    /\ result.op = "SelectRecentEvents"
    /\ result.onlySyncEvents
    /\ result.limit > 0
    /\ Len(result.events) = result.limit
    /\ \E r \in EntriesIn(result.roomID, result.low, result.high) :
          /\ r.exclude_from_sync
          /\ \A p \in PositionsOf(result.events) : p < r.id

(***************************************************************************)
(* C10: if the range of SelectStateInRange holds, for one room, an entry   *)
(* that adds state event X and a later entry that removes X, X is reported *)
(* as not needed for that room.                                            *)
(***************************************************************************)
StateIDs == {"$e1", "$e2"}

Adds(r, x) ==
    \E i \in 1..Len(UnmarshalStrings(r.add_state_ids[1])) :
        UnmarshalStrings(r.add_state_ids[1])[i] = x
Removes(r, x) ==
    \E i \in 1..Len(UnmarshalStrings(r.remove_state_ids[1])) :
        UnmarshalStrings(r.remove_state_ids[1])[i] = x

\* the state-carrying entries of all rooms in the range, and those within the
\* first limit of them
InRangeEntries ==
    { r \in Log : /\ result.low < r.id /\ r.id <= result.high
                  /\ (r.add_state_ids # <<>> \/ r.remove_state_ids # <<>>) }
Scanned ==
    { r \in InRangeEntries :
        Cardinality({ q \in InRangeEntries : q.id <= r.id }) <= result.limit }

Needed(roomID, x) ==
    /\ roomID \in DOMAIN result.stateNeeded
    /\ x \in DOMAIN result.stateNeeded[roomID]
    /\ result.stateNeeded[roomID][x]

NetsToRemoved(roomID, x) ==
    \E r \in Scanned :
        /\ r.room_id = roomID
        /\ Removes(r, x)
        /\ ~Adds(r, x)
        /\ \A q \in Scanned : (q.room_id = roomID /\ q.id > r.id) => ~Adds(q, x)

IsKey(roomID, x) ==
    /\ roomID \in DOMAIN result.stateNeeded
    /\ x \in DOMAIN result.stateNeeded[roomID]

\* C11 as stated: an event ID that nets to removed is not a key of the room's set
C11_RemovedIsDropped ==
    result.op = "SelectStateInRange" =>
        \A roomID \in RoomIDs : \A x \in StateIDs :
            NetsToRemoved(roomID, x) => ~IsKey(roomID, x)

\* C11, amended: an event ID that nets to removed stays a key of the room's set,
\* mapped to false
C11_RemovedIsKeptAsFalse ==
    result.op = "SelectStateInRange" =>
        \A roomID \in RoomIDs : \A x \in StateIDs :
            NetsToRemoved(roomID, x) =>
                IsKey(roomID, x) /\ result.stateNeeded[roomID][x] = FALSE

\* a range in which a room's entries only remove x: x is a key of the room's set,
\* mapped to false
C11_Witness ==
    /\ result.op = "SelectStateInRange"
    /\ \E roomID \in RoomIDs : \E x \in StateIDs :
          /\ NetsToRemoved(roomID, x)
          /\ \A q \in Scanned : q.room_id = roomID => ~Adds(q, x)
          /\ IsKey(roomID, x)
          /\ result.stateNeeded[roomID][x] = FALSE

(***************************************************************************)
(* C12: callers of InsertRoomNID for one room ID, sequential or            *)
(* concurrent, with any room versions, all get the same RoomNID, and the   *)
(* rooms table holds exactly one row for the room ID.                      *)
(***************************************************************************)
RoomRowsOf(rows, roomID) == { r \in rows : r.room_id = roomID }

\* the <<room ID, NID>> pairs returned by calls whose transaction committed or is
\* still open
LiveNIDs ==
    nidKept \cup { <<rtxn[t].roomID, rtxn[t].roomNID>> :
                      t \in { u \in Txns : rtxn[u].pc = "returned" } }

\* C12 as stated: every call that has returned, returned the same NID for the
\* room ID, and the table has exactly one row for it
C12_AllCallsSameNID ==
    \A p \in nidReturned :
        /\ \A q \in nidReturned : p[1] = q[1] => p[2] = q[2]
        /\ Cardinality(RoomRowsOf(roomserver_rooms, p[1])) = 1

\* C12, amended: the calls whose transaction is not rolled back returned the same
\* NID for the room ID, the table has exactly one row for it, with that NID, and
\* never more than one row for any room ID
C12_LiveCallsSameNID ==
    /\ \A p \in LiveNIDs :
          /\ \A q \in LiveNIDs : p[1] = q[1] => p[2] = q[2]
          /\ Cardinality(RoomRowsOf(roomserver_rooms, p[1])) = 1
          /\ \A r \in RoomRowsOf(roomserver_rooms, p[1]) : r.room_nid = p[2]
    /\ \A roomID \in RoomIDs :
          /\ Cardinality(RoomRowsOf(roomserver_rooms, roomID)) <= 1
          /\ Cardinality(RoomRowsOf(roomsCommitted, roomID)) <= 1

\* a transaction that inserts a room ID another transaction has inserted and
\* committed has returned the NID of the committed row, while a concurrent
\* transaction has returned the NID of another room ID
C12_Witness ==
    \E t \in Txns :
        /\ rtxn[t].pc = "returned"
        /\ <<rtxn[t].roomID, rtxn[t].roomNID>> \in nidKept
        /\ LockedBy(t) = {}
        /\ \E u \in Txns \ {t} : rtxn[u].pc = "returned" /\ rtxn[u].roomID # rtxn[t].roomID

(***************************************************************************)
(* C13: the mapping room ID -> RoomNID is injective and stable: a NID      *)
(* returned for a room ID is returned for it ever after, no two room IDs   *)
(* share a NID, and an assigned NID is never assigned to another room ID.  *)
(***************************************************************************)
\* every <<room ID, NID>> pair a row holds or a call has returned
AssignedNIDs ==
    nidReturned \cup { <<r.room_id, r.room_nid>> : r \in roomserver_rooms \cup roomsCommitted }

NIDsInjective == \A p, q \in AssignedNIDs : p[2] = q[2] => p[1] = q[1]

\* C13 as stated: injective, and a room ID keeps the NID SelectRoomNID has
\* returned for it
C13_NIDMappingStable ==
    /\ NIDsInjective
    /\ \A p, q \in AssignedNIDs : p[1] = q[1] => p[2] = q[2]

\* a committed row keeps its room ID and NID in every step
CommittedNIDsKept ==
    \A r \in roomsCommitted :
        \E q \in roomsCommitted' : q.room_id = r.room_id /\ q.room_nid = r.room_nid

\* C13, amended: injective over everything ever assigned, and stable for the
\* room IDs whose row is committed
C13_CommittedNIDMappingStable ==
    /\ [](/\ NIDsInjective
          /\ \A r, q \in roomsCommitted : r.room_id = q.room_id => r.room_nid = q.room_nid
          /\ \A r \in roomsCommitted : \A p \in LiveNIDs :
                p[1] = r.room_id => p[2] = r.room_nid)
    /\ [][CommittedNIDsKept]_vars

\* two room IDs have committed rows, and SelectRoomNID has returned the NID of a
\* committed row to a later transaction
C13_Witness ==
    /\ Cardinality(roomsCommitted) = 2
    /\ \E t \in Txns :
          /\ rtxn[t].pc = "returned"
          /\ LockedBy(t) = {}
          /\ \E r \in roomsCommitted :
                r.room_id = rtxn[t].roomID /\ r.room_nid = rtxn[t].roomNID

(***************************************************************************)
(* C14: room_version is immutable after creation: neither InsertRoomNID    *)
(* for the same room ID with another version nor UpdateLatestEventNIDs     *)
(* changes what SelectRoomVersionForRoomID / ForRoomNID return.            *)
(***************************************************************************)
\* C14: in every step, a room version that the two queries return, on the
\* committed rows or on the latest version of the rows that the transaction
\* holding a row's lock sees, is returned unchanged after the step
C14_RoomVersionImmutable ==
    [][ /\ \A roomID \in RoomIDs :
             /\ SelectRoomVersionForRoomID(roomsCommitted, roomID).err = "nil"
                   => SelectRoomVersionForRoomID(roomsCommitted', roomID)
                        = SelectRoomVersionForRoomID(roomsCommitted, roomID)
             /\ SelectRoomVersionForRoomID(roomserver_rooms, roomID).err = "nil"
                   => SelectRoomVersionForRoomID(roomserver_rooms', roomID)
                        = SelectRoomVersionForRoomID(roomserver_rooms, roomID)
        /\ \A roomNID \in RoomNIDs :
             SelectRoomVersionForRoomNID(roomsCommitted, roomNID).err = "nil"
             => SelectRoomVersionForRoomNID(roomsCommitted', roomNID)
                  = SelectRoomVersionForRoomNID(roomsCommitted, roomNID) ]_vars

\* a room whose latest events were updated has just been inserted again with a
\* version other than its own, and kept its version
C14_Witness ==
    /\ result.op = "InsertRoomNID"
    /\ \E r \in roomsCommitted :
          /\ r.room_id = result.roomID
          /\ r.room_nid = result.roomNID
          /\ r.last_event_sent_nid # 0
          /\ r.room_version # result.roomVersion
          /\ SelectRoomVersionForRoomID(roomsCommitted, r.room_id).roomVersion
                = r.room_version

(***************************************************************************)
(* C15: two transactions that lock, read and update one room are           *)
(* serialized by the row lock: the second reads what the first committed,  *)
(* and they never both act on the same pre-update values.                  *)
(***************************************************************************)
\* what SelectLatestEventsNIDsForUpdate returned to the transaction
ReadUnderLock(t) ==
    <<rtxn[t].eventNIDs, rtxn[t].lastEventSentNID, rtxn[t].stateSnapshotNID>>
\* the same three values of a row
RoomValues(row) ==
    <<UnmarshalEventNIDs(row.latest_event_nids), row.last_event_sent_nid,
      row.state_snapshot_nid>>
\* between its locked read and its commit or rollback
InUpdate(t) == rtxn[t].pc \in {"locked", "updated"}

\* C15: while a transaction is between its locked read and its end, what it read
\* is the room's committed value, and no other transaction is at that point for
\* the same room
C15_LockedReadIsCurrent ==
    \A t \in Txns :
        InUpdate(t) =>
            /\ ReadUnderLock(t) = RoomValues(RoomRow(roomsCommitted, rtxn[t].roomNID))
            /\ \A u \in Txns \ {t} : InUpdate(u) => rtxn[u].roomNID # rtxn[t].roomNID

\* a transaction has read, under the lock, values that an earlier transaction
\* wrote and committed
C15_Witness ==
    \E t \in Txns :
        /\ rtxn[t].pc = "locked"
        /\ rtxn[t].lastEventSentNID # 0
        /\ rtxn[t].roomNID \in LockedBy(t)

(***************************************************************************)
(* C16: a transaction holding the lock of one room never blocks a          *)
(* transaction that locks and updates another room.                        *)
(***************************************************************************)
\* C16: while a transaction holds the lock of a room, the locked read of any other
\* room whose lock is free can be taken by another transaction, and every open
\* transaction can commit
C16_OtherRoomsNotBlocked ==
    /\ \A t, u \in Txns : \A n, m \in RoomNIDs :
          ( /\ t # u /\ n # m
            /\ n \in LockedBy(t)
            /\ rtxn[u].pc = "idle"
            /\ \E r \in roomsCommitted : r.room_nid = m
            /\ \A v \in Txns \ {u} : m \notin LockedBy(v) )
          => ENABLED SelectLatestEventsNIDsForUpdate(u, m)
    /\ \A t \in Txns : RoomTxnOpen(t) => ENABLED RoomCommit(t)

\* two transactions have locked and updated two different rooms at the same time
C16_Witness ==
    \E t, u \in Txns :
        /\ t # u
        /\ rtxn[t].pc = "updated" /\ rtxn[u].pc = "updated"
        /\ rtxn[t].roomNID # rtxn[u].roomNID
        /\ rtxn[t].roomNID \in LockedBy(t)
        /\ rtxn[u].roomNID \in LockedBy(u)

(***************************************************************************)
(* C17: a room-update transaction that is rolled back after                *)
(* UpdateLatestEventNIDs leaves the room's latest_event_nids,              *)
(* last_event_sent_nid and state_snapshot_nid, as other transactions see   *)
(* them, as they were before the transaction began.                        *)
(***************************************************************************)
\* C17: while the update is uncommitted every other transaction sees the values
\* the transaction read when it began, and after the rollback the committed and
\* the latest version of the row both hold them
C17_RollbackRestoresRoom ==
    /\ [](\A t \in Txns : rtxn[t].pc = "updated" =>
            \A u \in Txns \ {t} :
                RoomValues(RoomRow(VisibleRooms(u), rtxn[t].roomNID)) = ReadUnderLock(t))
    /\ [][ \A t \in Txns :
             (rtxn[t].pc = "updated" /\ RoomRollback(t)) =>
                 /\ RoomValues(RoomRow(roomsCommitted', rtxn[t].roomNID))
                       = ReadUnderLock(t)
                 /\ RoomRow(roomserver_rooms', rtxn[t].roomNID)
                       = RoomRow(roomsCommitted', rtxn[t].roomNID) ]_vars

\* a transaction that had updated a room was rolled back, and the room has the
\* values of a room that was never updated
C17_Witness ==
    /\ result.op = "Rollback"
    /\ result.pc = "updated"
    /\ \A t \in Txns : result.roomNID \notin LockedBy(t)
    /\ RoomValues(RoomRow(roomsCommitted, result.roomNID)) = <<<<>>, 0, 0>>
    /\ RoomRow(roomserver_rooms, result.roomNID) = RoomRow(roomsCommitted, result.roomNID)

C19_AnyArguments ==
    \A r \in roomsCommitted :
        r.state_snapshot_nid = 0 <=> UnmarshalEventNIDs(r.latest_event_nids) = <<>>

Failing(t) == pc[t] \in {"increase", "select", "insert", "failed"}

\* C18: when a failing InsertEvent is rolled back, the committed log and counter
\* are untouched, the log has the rows it had, and a counter the call has
\* increased is back at the value it had before the call's UPDATE
C18_FailedInsertLeavesNothing ==
    [][ \A t \in Txns :
          (Failing(t) /\ Rollback(t)) =>
              /\ committed' = committed
              /\ output_room_events' = output_room_events
              /\ stream_id' = IF t \in lock THEN stream_id - 1 ELSE stream_id
              /\ t \in lock =>
                    /\ stream_id' = committed'.stream_id
                    /\ output_room_events' = committed'.output_room_events
              /\ t \notin lock' ]_vars

\* calls have obtained positions and every one of them was rolled back: the log
\* is empty and the counter is at its initial value
C18_Witness ==
    /\ \A t \in Txns : pc[t] = "idle"
    /\ Cardinality(returned) >= 1
    /\ kept = {}
    /\ lock = {}
    /\ stream_id = 0 /\ committed.stream_id = 0
    /\ output_room_events = {} /\ committed.output_room_events = {}

(***************************************************************************)
(* C20: every successful insertState creates a new snapshot row and        *)
(* returns a StateSnapshotNID distinct from and greater than every one     *)
(* returned before, also for a room NID and block list inserted before.    *)
(***************************************************************************)
\* C20: each insertState step adds one row, holding the arguments under the
\* returned NID, and the NID is greater than every NID returned before
C20_InsertStateAlwaysNew ==
    [][ SnapshotInserter =>
          /\ result'.stateNID \notin snapshotsReturned
          /\ \A n \in snapshotsReturned : result'.stateNID > n
          /\ Cardinality(roomserver_state_snapshots')
                = Cardinality(roomserver_state_snapshots) + 1
          /\ \E r \in roomserver_state_snapshots' \ roomserver_state_snapshots :
                /\ r.state_snapshot_nid = result'.stateNID
                /\ r.room_nid = result'.roomNID
                /\ r.state_block_nids = Int64Array(result'.stateBlockNIDs) ]_vars

\* insertState has just returned for a room NID and a block list that an earlier
\* snapshot row holds: there are two rows with them, under different NIDs
C20_Witness ==
    /\ result.op = "insertState"
    /\ \E r, q \in roomserver_state_snapshots :
          /\ r.state_snapshot_nid = result.stateNID
          /\ q.state_snapshot_nid < r.state_snapshot_nid
          /\ q.room_nid = r.room_nid
          /\ q.state_block_nids = r.state_block_nids

\* C21: whenever bulkSelectStateBlockNIDs is asked for a state snapshot NID that has
\* no row in the snapshot table, it returns an error and a nil result: no element,
\* filled or not, reaches the caller.
MissingNIDs(rows, stateNIDs) ==
    { stateNIDs[i] : i \in 1..Len(stateNIDs) } \
        { r.state_snapshot_nid : r \in rows }

C21_MissingNIDIsAnError ==
    (/\ result.op = "bulkSelectStateBlockNIDs"
     /\ MissingNIDs(roomserver_state_snapshots, result.stateNIDs) # {})
        => /\ result.returned.err # "nil"
           /\ result.returned.results = NilSlice

\* a request for a stored snapshot and a missing one, bound by its elements: one
\* row comes back, and the call fails
C21_Witness ==
    /\ result.op = "bulkSelectStateBlockNIDs"
    /\ result.binding = "elements"
    /\ Len(result.stateNIDs) = 2
    /\ \E r \in roomserver_state_snapshots :
          r.state_snapshot_nid = result.stateNIDs[1]
    /\ result.stateNIDs[2] \in MissingNIDs(roomserver_state_snapshots, result.stateNIDs)
    /\ result.returned.err # "nil"
    /\ result.returned.results = NilSlice

\* C22: every operation of the rooms table that is called for a room with no row
\* (SelectRoomNID, SelectLatestEventNIDs, SelectLatestEventsNIDsForUpdate,
\* UpdateLatestEventNIDs, SelectRoomVersionForRoomID, SelectRoomVersionForRoomNID)
\* returns an error.
RoomOps ==
    { "SelectRoomNID", "SelectLatestEventNIDs", "SelectLatestEventsNIDsForUpdate",
      "UpdateLatestEventNIDs", "SelectRoomVersionForRoomID",
      "SelectRoomVersionForRoomNID" }

C22_MissingRoomIsAnError ==
    (result.op \in RoomOps /\ ~result.found) => result.returned.err # "nil"

\* the five reading operations do report the missing room
C22_ReadsOfMissingRoomFail ==
    (result.op \in RoomOps \ {"UpdateLatestEventNIDs"} /\ ~result.found)
        => result.returned.err # "nil"

(***************************************************************************)
(* C23: SelectStateInRange considers exactly the state-carrying entries    *)
(* with Low < p <= High, folds them in ascending position order, and       *)
(* buckets the result per room: an event ID added or removed by an entry   *)
(* of room A does not appear in the needed set of another room B.          *)
(***************************************************************************)
Mentions(r, x) == Adds(r, x) \/ Removes(r, x)

\* the entry of the highest position, among entries, of the room that mentions x
LastMention(entries, roomID, x) ==
    CHOOSE r \in entries :
        /\ r.room_id = roomID
        /\ Mentions(r, x)
        /\ \A q \in entries : (q.room_id = roomID /\ Mentions(q, x)) => q.id <= r.id

\* the result is the fold, in ascending order, of exactly these entries: the rooms
\* are those of the entries, the keys of a room are the IDs its own entries mention,
\* and the last mention decides (within an entry, the add)
FoldOf(entries) ==
    /\ DOMAIN result.stateNeeded = { r.room_id : r \in entries }
    /\ \A roomID \in RoomIDs : \A x \in StateIDs :
          /\ IsKey(roomID, x) <=>
                \E r \in entries : r.room_id = roomID /\ Mentions(r, x)
          /\ IsKey(roomID, x) =>
                (result.stateNeeded[roomID][x] <=> Adds(LastMention(entries, roomID, x), x))
    /\ DOMAIN result.eventIDToEvent = { r.event_id : r \in entries }

IsLastMention(entries, r, x) ==
    /\ r \in entries
    /\ Mentions(r, x)
    /\ \A q \in entries : (q.room_id = r.room_id /\ q.id > r.id) => ~Mentions(q, x)

LatestDecides(entries) ==
    \A x \in StateIDs :
        /\ \A r1, r2 \in entries :
              ( /\ r1.room_id = r2.room_id
                /\ r1.id < r2.id
                /\ Removes(r1, x)
                /\ Adds(r2, x)
                /\ IsLastMention(entries, r2, x) )
              => Needed(r2.room_id, x)
        /\ \A r \in entries :
              (Adds(r, x) /\ Removes(r, x) /\ IsLastMention(entries, r, x))
              => Needed(r.room_id, x)

OverwriteIDs == { e.event_id : e \in ReadEvents }
AddedIDs(r) == { x \in OverwriteIDs : Adds(r, x) }
RemovedIDs(r) == { x \in OverwriteIDs : Removes(r, x) }
OfRoom(entries, roomID) == { r \in entries : r.room_id = roomID }
IsFirst(ents, r) == \A q \in ents : r.id <= q.id
IsLast(ents, r) == \A q \in ents : q.id <= r.id
Follows(ents, p, r) ==
    p.id < r.id /\ \A q \in ents : q.id < r.id => q.id <= p.id

\* ents, in the order of their positions, overwrite one piece of state: each adds
\* one event, a new one, and each but the first removes the event added just before
OverwriteChain(ents) ==
    /\ Cardinality(ents) >= 2
    /\ \A r \in ents : Cardinality(AddedIDs(r)) = 1
    /\ \A r, q \in ents : r # q => AddedIDs(r) # AddedIDs(q)
    /\ \A r \in ents :
          IsFirst(ents, r) => \A q \in ents : RemovedIDs(r) \cap AddedIDs(q) = {}
    /\ \A p, r \in ents : Follows(ents, p, r) => RemovedIDs(r) = AddedIDs(p)

OnlyMostRecentNeeded(entries) ==
    \A roomID \in RoomIDs :
        OverwriteChain(OfRoom(entries, roomID)) =>
            \A r \in OfRoom(entries, roomID) :
                IsLast(OfRoom(entries, roomID), r) =>
                    { x \in OverwriteIDs : Needed(roomID, x) } = AddedIDs(r)

SyncEventsOf(rows, roomID) ==
    SelectRecentEvents(rows, roomID, 0, MaxPos, MaxPos, TRUE, TRUE)

\* the step is the second insert of the event of row r: the row was excluded from
\* sync, and is not after the step
MadeSyncVisible(r) ==
    /\ r \in Log
    /\ r.exclude_from_sync
    /\ \E q \in Log' : q.event_id = r.event_id /\ ~q.exclude_from_sync

C26_VisibleAtFirstPosition ==
    [][ \A r \in Log :
          MadeSyncVisible(r) =>
              LET events == SyncEventsOf(Log', r.room_id)
              IN /\ \E i \in 1..Len(events) :
                       /\ events[i].HeaderedEvent.event_id = r.event_id
                       /\ events[i].StreamPosition = r.id
                 /\ \A i \in 1..Len(events) :
                       events[i].HeaderedEvent.event_id = r.event_id
                           => events[i].StreamPosition # committed'.stream_id
                 /\ committed'.stream_id > r.id ]_vars

\* an event was inserted twice, at positions 1 and 2, and a sync reader gets it
\* at position 1
C26_Witness ==
    /\ result.op = "SelectRecentEvents"
    /\ result.onlySyncEvents
    /\ committed.stream_id = 2
    /\ Cardinality(Log) = 1
    /\ Len(result.events) = 1
    /\ result.events[1].StreamPosition = 1
    /\ ~result.events[1].ExcludeFromSync

(***************************************************************************)
(* C27: SelectMaxEventID returns 0 when the output log is empty and        *)
(* otherwise the largest stream position of a stored entry; in every       *)
(* committed state this value is at most the value of the global counter,  *)
(* so a later InsertEvent of a new event stores a position strictly        *)
(* greater than a SelectMaxEventID read before it.                         *)
(***************************************************************************)
MaxEventIDIsLargest ==
    LET id == SelectMaxEventID(committed.output_room_events)
    IN /\ committed.output_room_events = {} => id = 0
       /\ committed.output_room_events # {} =>
             /\ \E r \in committed.output_room_events : r.id = id
             /\ \A r \in committed.output_room_events : r.id <= id
       /\ id <= committed.stream_id
       /\ id <= stream_id

\* the rows of events the table did not hold before the step
NewEntries ==
    { q \in output_room_events' :
        \A r \in output_room_events : r.event_id # q.event_id }

NewEntryAboveMaxRead ==
    result.op = "SelectMaxEventID" => \A q \in NewEntries : q.id > result.id

InNextStreamID == \E t \in Txns : pc[t] = "increase" /\ pc'[t] = "select"

\* the step is the rollback of the transaction that holds the counter row
IsRollbackOfHolder == \E t \in lock : pc'[t] = "idle" /\ committed' = committed

FirstPositionIsOne ==
    /\ \A p \in returned : p >= 1
    /\ returned # {} => 1 \in returned

\* C28 as stated: the stored value only ever grows, by 1, in nextStreamID
C28_CounterOnlyIncreases ==
    /\ stream_id = 0
    /\ [][ /\ stream_id' # stream_id => (stream_id' = stream_id + 1 /\ InNextStreamID)
           /\ (returned = {} /\ returned' # {}) => returned' = {1} ]_vars
    /\ [](FirstPositionIsOne)

\* C28, amended: the stored value grows by 1 in nextStreamID, and goes back to
\* its committed value only when the transaction that increased it is rolled
\* back; the committed value never decreases
C28_CounterOnlyIncreasesOrRollsBack ==
    /\ stream_id = 0 /\ committed.stream_id = 0
    /\ [][ /\ stream_id' # stream_id =>
                \/ stream_id' = stream_id + 1 /\ InNextStreamID
                \/ /\ IsRollbackOfHolder
                   /\ stream_id = committed.stream_id + 1
                   /\ stream_id' = committed.stream_id
           /\ committed'.stream_id >= committed.stream_id
           /\ committed'.stream_id <= committed.stream_id + 1
           /\ (returned = {} /\ returned' # {}) => returned' = {1} ]_vars
    /\ [](FirstPositionIsOne)

\* the schema initialisation ran again on a store whose counter had been
\* increased and committed, and the counter kept its value
C28_Witness ==
    /\ result.op = "prepare"
    /\ committed.stream_id >= 2
    /\ stream_id = committed.stream_id
    /\ 1 \in returned

(***************************************************************************)
(* C29: after a committed UpdateLatestEventNIDs(room, nids, sent,          *)
(* snapshot) on an existing room, SelectLatestEventNIDs(room) returns      *)
(* (nids, snapshot) and SelectLatestEventsNIDsForUpdate(room) returns      *)
(* (nids, sent, snapshot), nids in the same order; the one update replaces *)
(* the three fields together and leaves every other room as it was.        *)
(***************************************************************************)
UpdateReadsBack ==
    (result.op = "UpdateLatestEventNIDs" /\ result.found) =>
        /\ SelectLatestEventNIDs(roomsCommitted, result.roomNID) =
              [ eventNIDs |-> result.args.eventNIDs,
                stateSnapshotNID |-> result.args.stateSnapshotNID,
                err |-> "nil" ]
        /\ selectLatestEventNIDsForUpdate(roomsCommitted, result.roomNID) =
              [ eventNIDs |-> result.args.eventNIDs,
                lastEventSentNID |-> result.args.lastEventSentNID,
                stateSnapshotNID |-> result.args.stateSnapshotNID,
                err |-> "nil" ]

\* a step that changes stored rooms and is a call of UpdateLatestEventNIDs
\* changes the three fields of that room's row and nothing else
UpdateTouchesOneRoom ==
    (roomsCommitted' # roomsCommitted /\ result'.op = "UpdateLatestEventNIDs") =>
        /\ \A r \in roomsCommitted : r.room_nid # result'.roomNID => r \in roomsCommitted'
        /\ \A q \in roomsCommitted' : \E r \in roomsCommitted :
              /\ r.room_nid = q.room_nid
              /\ r.room_id = q.room_id
              /\ r.room_version = q.room_version

HasDefaults(r) ==
    /\ r.latest_event_nids = <<"[", "]">>
    /\ UnmarshalEventNIDs(r.latest_event_nids) = <<>>
    /\ r.last_event_sent_nid = 0
    /\ r.state_snapshot_nid = 0

\* the step commits a transaction that has called UpdateLatestEventNIDs on the room
CommitsUpdateOf(roomNID) ==
    \E t \in Txns :
        /\ rtxn[t].pc = "updated"
        /\ rtxn[t].roomNID = roomNID
        /\ rtxn'[t] = IdleTxn
        /\ <<t, roomNID>> \in roomLocks
        /\ RoomRow(roomsCommitted', roomNID) = RoomRow(roomserver_rooms, roomNID)

C30_NewRoomKeepsDefaults ==
    [][ /\ \A q \in roomsCommitted' :
              (\A r \in roomsCommitted : r.room_nid # q.room_nid) => HasDefaults(q)
        /\ \A r \in roomsCommitted :
              (HasDefaults(r) /\ r \notin roomsCommitted') => CommitsUpdateOf(r.room_nid)
      ]_vars

\* a transaction has updated a new room and not committed yet: the stored room
\* still has the values it was created with
C30_Witness ==
    \E t \in Txns :
        /\ rtxn[t].pc = "updated"
        /\ HasDefaults(RoomRow(roomsCommitted, rtxn[t].roomNID))
        /\ ~HasDefaults(RoomRow(roomserver_rooms, rtxn[t].roomNID))
        /\ result.op = "InsertRoomNID"
        /\ result.roomNID = rtxn[t].roomNID

(***************************************************************************)
(* C31: for any list of requested state snapshot NIDs that all exist in    *)
(* the store, in any order and with or without repeats,                    *)
(* bulkSelectStateBlockNIDs succeeds and returns the block-NID list of     *)
(* every requested snapshot, sorted by ascending StateSnapshotNID, each    *)
(* block list in its stored order.                                         *)
(***************************************************************************)
\* the returned lists are those of the requested snapshots, ascending, each as stored
ReturnsRequested(stateNIDs, out) ==
    /\ out.err = "nil"
    /\ ~out.results.isNil
    /\ LET lists == out.results.elems
       IN /\ \A i \in 1..Len(stateNIDs) : \E k \in 1..Len(lists) :
                lists[k].StateSnapshotNID = stateNIDs[i]
          /\ \A k \in 1..Len(lists) : \E r \in roomserver_state_snapshots :
                /\ r.state_snapshot_nid = lists[k].StateSnapshotNID
                /\ Int64Array(lists[k].StateBlockNIDs.elems) = r.state_block_nids
          /\ \A k \in 1..(Len(lists) - 1) :
                lists[k].StateSnapshotNID <= lists[k + 1].StateSnapshotNID

HasRepeat(stateNIDs) ==
    \E i, j \in 1..Len(stateNIDs) : i # j /\ stateNIDs[i] = stateNIDs[j]

C31_StoredNIDsAreReturned ==
    (/\ result.op = "bulkSelectStateBlockNIDs"
     /\ MissingNIDs(roomserver_state_snapshots, result.stateNIDs) = {})
        => ReturnsRequested(result.stateNIDs, result.returned)

\* what does hold: a request without repeats, bound by its elements
C31_DistinctNIDsByElements ==
    (/\ result.op = "bulkSelectStateBlockNIDs"
     /\ result.binding = "elements"
     /\ ~HasRepeat(result.stateNIDs)
     /\ MissingNIDs(roomserver_state_snapshots, result.stateNIDs) = {})
        => ReturnsRequested(result.stateNIDs, result.returned)

(***************************************************************************)
(* C32: SelectEvents(eventIDs) returns, without error, exactly the stored  *)
(* log entries whose event ID is in the requested list, in the order of    *)
(* the request, and omits every requested ID that has no entry: an absent  *)
(* ID causes no error and no placeholder.                                  *)
(***************************************************************************)
Stored(eventID) == \E r \in Log : r.event_id = eventID

\* the requested IDs that have an entry, in the order of the request
RECURSIVE StoredOf(_)
StoredOf(eventIDs) ==
    IF eventIDs = <<>> THEN <<>>
    ELSE IF Stored(Head(eventIDs)) THEN <<Head(eventIDs)>> \o StoredOf(Tail(eventIDs))
    ELSE StoredOf(Tail(eventIDs))

C32_SelectEventsOmitsAbsent ==
    result.op = "SelectEvents" =>
        LET wanted == StoredOf(result.eventIDs)
            events == result.returned.events.elems
        IN /\ result.returned.err = "nil"
           /\ Len(events) = Len(wanted)
           /\ \A i \in 1..Len(events) : \E r \in Log :
                 /\ r.event_id = wanted[i]
                 /\ events[i].HeaderedEvent.event_id = wanted[i]
                 /\ events[i].HeaderedEvent.room_id = r.room_id
                 /\ events[i].StreamPosition = r.id
                 /\ events[i].ExcludeFromSync = r.exclude_from_sync

\* a stored event is asked for after an absent one: the absent one is left out
C32_Witness ==
    /\ result.op = "SelectEvents"
    /\ Len(result.eventIDs) = 2
    /\ ~Stored(result.eventIDs[1])
    /\ Stored(result.eventIDs[2])
    /\ Len(result.returned.events.elems) = 1
    /\ result.returned.events.elems[1].HeaderedEvent.event_id = result.eventIDs[2]
    /\ result.returned.err = "nil"

(***************************************************************************)
(* C33: an event inserted with a non-nil transactionID (sessionID, txnID)  *)
(* is read back by SelectEvents, SelectRecentEvents and SelectEarlyEvents  *)
(* with the same TransactionID, and one inserted with a nil transactionID  *)
(* with a nil TransactionID; a stored row never has exactly one of         *)
(* session_id and transaction_id set.                                      *)
(***************************************************************************)
\* the TransactionID each of the three queries returns for the event
TransactionIDsReadBack(eventID, roomID) ==
    LET byID == SelectEvents(Log, <<eventID>>).events.elems
        recent == SelectRecentEvents(Log, roomID, 0, MaxPos, MaxPos, TRUE, FALSE)
        early == SelectEarlyEvents(Log, roomID, 0, MaxPos, MaxPos)
        OfEvent(events) ==
            { events[i].TransactionID :
                i \in { k \in 1..Len(events) :
                          events[k].HeaderedEvent.event_id = eventID } }
    IN <<OfEvent(byID), OfEvent(recent), OfEvent(early)>>

BothOrNeither ==
    \A r \in Log : (r.session_id = SqlNull) <=> (r.transaction_id = SqlNull)

\* C33 as stated: whatever InsertEvent call, of a new event or of a stored one
C33_TransactionIDReadBack ==
    /\ BothOrNeither
    /\ result.op = "InsertEvent" =>
          \A i \in 1..3 :
              TransactionIDsReadBack(result.eventID, result.roomID)[i]
                  = {result.transactionID}

\* C33, amended: the InsertEvent call that stored the entry of the event
C33_FirstTransactionIDReadBack ==
    /\ BothOrNeither
    /\ (/\ result.op = "InsertEvent"
        /\ \E r \in Log : r.event_id = result.eventID /\ r.id = result.streamPos) =>
          \A i \in 1..3 :
              TransactionIDsReadBack(result.eventID, result.roomID)[i]
                  = {result.transactionID}

\* an event was stored with the transaction ID of the second session, after an
\* event stored with none
C33_Witness ==
    /\ result.op = "InsertEvent"
    /\ result.transactionID # SqlNull
    /\ result.transactionID[1].SessionID = 8
    /\ \E r \in Log : r.event_id = result.eventID /\ r.id = result.streamPos
    /\ \E r \in Log : r.event_id # result.eventID /\ r.session_id = SqlNull
    /\ TransactionIDsReadBack(result.eventID, result.roomID)[1] = {result.transactionID}

(***************************************************************************)
(* C34: the contains_url value InsertEvent stores for an event is true if  *)
(* and only if the event's content is a JSON object that has a "url" key.  *)
(***************************************************************************)
HasURLKey(c) == c.kind = "object" /\ "url" \in c.keys

C34_ContainsURLIffURLKey ==
    result.op = "InsertEvent" =>
        \A r \in Log :
            (r.event_id = result.eventID /\ r.id = result.streamPos) =>
                (r.contains_url <=> HasURLKey(result.content))

\* what the code does store: false, whatever the content
C34_ContainsURLAlwaysFalse == \A r \in Log : ~r.contains_url

(***************************************************************************)
(* C35: under fair scheduling, with concurrent InsertEvent transactions    *)
(* that each commit or roll back after their insert, every transaction     *)
(* eventually obtains a stream position and terminates: contention on the  *)
(* counter row produces no deadlock.                                       *)
(***************************************************************************)
C35_EveryTransactionTerminates ==
    \A t \in Txns :
        /\ (pc[t] = "increase") ~> (pc[t] = "insert" /\ streamPos[t] >= 1)
        /\ (pc[t] # "idle") ~> (pc[t] = "idle")

\* a transaction waits for the counter row while the other one holds its lock
C35_Witness ==
    \E t, u \in Txns :
        /\ t # u
        /\ pc[t] = "increase"
        /\ u \in lock
        /\ pc[u] = "insert"

(***************************************************************************)
(* C36: no two calls of the appservice selectTxnID, sequential or          *)
(* concurrent, return the same transaction ID, and a call that starts      *)
(* after another has completed returns a strictly greater ID.              *)
(***************************************************************************)
\* the step is the return of a call, with the ID it returns
ReturnsTxnID(c) == txnIDCall[c].pc = "selected" /\ txnIDCall'[c].pc = "idle"

\* the step is the start of a call, which reads the ID it will return
StartsTxnIDCall(c) == txnIDCall[c].pc = "idle" /\ txnIDCall'[c].pc = "selected"

C36_TxnIDsUniqueAndAscending ==
    [][ \A c \in Txns :
          /\ ReturnsTxnID(c) => txnIDCall[c].txnID \notin txnIDsReturned
          /\ StartsTxnIDCall(c) =>
                \A id \in txnIDsReturned : txnIDCall'[c].txnID > id ]_vars

\* what does hold with concurrent callers: a call that starts after another has
\* completed returns a greater ID
C36_LaterCallsGetGreaterIDs ==
    [][ \A c \in Txns :
          StartsTxnIDCall(c) =>
              \A id \in txnIDsReturned : txnIDCall'[c].txnID > id ]_vars

(***************************************************************************)
(* GetEvent: who is shown the event.                                       *)
(***************************************************************************)
GetEventReturned == result.op = "GetEvent"

\* the requester has a join membership event in the state after the prev events
RequesterJoined ==
    \E i \in 1..Len(result.rsAPI.StateEvents) :
        /\ result.rsAPI.StateEvents[i].state_key = result.userID
        /\ result.rsAPI.StateEvents[i].membership = "join"

\* the requester's membership events, if any, can be read
MembershipReadable ==
    \A i \in 1..Len(result.rsAPI.StateEvents) :
        result.rsAPI.StateEvents[i].state_key = result.userID
            => result.rsAPI.StateEvents[i].membership # ErrMembership

QueriesSucceed == ~result.rsAPI.eventsErr /\ ~result.rsAPI.stateErr

OnlyWhenJoined ==
    result.response.Code = 200
        => /\ result.rsAPI.stored
           /\ result.rsAPI.RoomExists
           /\ result.rsAPI.PrevEventsExist
           /\ RequesterJoined
           /\ result.response.JSON = [ event_id |-> result.eventID ]

ResponseWithoutEvent ==
    GetEvent(result.userID, result.eventID, [ result.rsAPI EXCEPT !.stored = FALSE ])

NewDatabaseReturned ==
    result.op \in {"appservice.NewDatabase", "serverkeyapi.NewDatabase"}

\* the data source name is the scheme word, a colon, and text with no
\* control byte in it
HasScheme(word) ==
    /\ Len(result.dataSourceName) >= 2
    /\ result.dataSourceName[1] = word
    /\ result.dataSourceName[2] = Colon
    /\ ~Contains(result.dataSourceName, CtlByte)

KnownScheme == HasScheme("postgres") \/ HasScheme("mysql") \/ HasScheme("file")

C40_PublicRoomsOnlyOpensFile ==
    result.op = "NewPublicRoomsServerDatabase" =>
        /\ result.returned.opened # "none"
              => /\ HasScheme("file") \/ HasScheme("FILE")
                 /\ result.returned.opened = "sqlite3"
        /\ ~( HasScheme("file") \/ HasScheme("FILE") )
              => /\ result.returned.db = Nil
                 /\ result.returned.err # "nil"
                 /\ result.returned.opened = "none"

\* a postgres: data source name given to the public rooms selector: nothing
\* opened, an error returned
C40_Witness ==
    /\ result.op = "NewPublicRoomsServerDatabase"
    /\ HasScheme("postgres")
    /\ result.returned.db = Nil
    /\ result.returned.err = "Cannot use postgres implementation"

====
